---- MODULE Spec2Model ----
(***************************************************************************)
(* Icon resolution of libxdg-go (package icons): the size matching         *)
(* predicate and distance, the per-theme lookup, the inheritance walk, the *)
(* top-level fallback chain and the on-disk theme map cache.               *)
(*                                                                         *)
(* Strings that the code converts (theme names, parent names, map keys)    *)
(* are sequences of one-character strings, so that ToLower, ToUpper, Title *)
(* and the JSON string coercion are computed character by character.       *)
(* Strings the code only compares or joins (Type, PathName, BasePath,      *)
(* Context, icon names, extensions) are TLA+ strings; the values used for  *)
(* them are ASCII literals.                                                *)
(***************************************************************************)
EXTENDS Integers, Sequences, FiniteSets, TLC

VARIABLES
    rule,       \* SpecSize: the Subdir handed to the two size functions
    reqSize,    \* the requested icon size
    reqScale,   \* the requested icon scale
    sizeOut,    \* SpecSize: [matches, distance] of the last evaluation, or "none"
    theme,      \* the Theme handed to LookupIcon / FindIcon
    files,      \* the regular files that exist on disk (set of joined paths)
    lookupOut,  \* SpecLookup: result of the LookupIcon call, or "none"
    themeMap,   \* the map[string]Theme handed to FindIcon
    pc,         \* position inside FindIcon
    stack,      \* call stack of findIconHelper: frames [theme, idx]
    log,        \* history: the findIconHelper calls and skipped parents, in order
    result,     \* what FindIcon returned: [file, err]
    now,        \* SpecCache: wall clock
    dataDirs,   \* SpecCache: the XDG data directories and the themes below them
    cacheFile,  \* SpecCache: the cache file [exists, mtime, content]
    cacheOut,   \* SpecCache: what the last CacheThemeMap call did and returned
    dflt,       \* SpecDefaults: the activations of FindIconDefaults and its return
    callers,    \* SpecCalls: the concurrent callers of CacheThemeMap
    parsed,     \* SpecParse: a descriptor and the themes parsed from it
    daemon      \* SpecDaemon: the notification daemon

vars == <<rule, reqSize, reqScale, sizeOut, theme, files, lookupOut,
          themeMap, pc, stack, log, result, now, dataDirs, cacheFile, cacheOut,
          dflt, callers, parsed, daemon>>

sizeVars   == <<rule, sizeOut>>
lookupVars == <<lookupOut>>
findVars   == <<themeMap, pc, stack, log, result>>
cacheVars  == <<now, dataDirs, cacheFile, cacheOut>>
laterVars  == <<dflt, callers, parsed, daemon>>

(***************************************************************************)
(* Bounds of the model.                                                    *)
(***************************************************************************)
MaxDim == 3
MaxThreshold == 1
MaxScale == 2
MaxSubdirs == 2
MaxDepth == 4
MaxTime == 6

-----------------------------------------------------------------------------
(***************************************************************************)
(* Types.                                                                  *)
(***************************************************************************)

\* type Subdir struct
Subdir(type, pathName, size, minSize, maxSize, threshold, scale, context) ==
    [Type |-> type, PathName |-> pathName, Size |-> size, MinSize |-> minSize,
     MaxSize |-> maxSize, Threshold |-> threshold, Scale |-> scale,
     Context |-> context]

\* type Theme struct
Theme(name, subdirs, parents, basePath) ==
    [Name |-> name, Subdirs |-> subdirs, Parents |-> parents, BasePath |-> basePath]

\* the zero value of Theme: what a map read of a missing key yields
ZeroTheme == Theme(<<>>, <<>>, <<>>, "")

\* a (string, error) return value
Ok(f) == [file |-> f, err |-> "nil"]
Fail(e) == [file |-> <<>>, err |-> e]

-----------------------------------------------------------------------------
(***************************************************************************)
(* Size matching and distance.                                             *)
(***************************************************************************)

abs(x) == IF x < 0 THEN -x ELSE x

directoryMatchesSizeNoScale(subdir, iconSize, iconScale) ==
    CASE subdir.Type = "Fixed" -> subdir.Size = iconSize
      [] subdir.Type = "Scaled" ->
            subdir.MinSize <= iconSize /\ iconSize <= subdir.MaxSize
      [] subdir.Type = "Threshold" ->
            (subdir.Size - subdir.Threshold) <= iconSize
            /\ iconSize <= (subdir.Size + subdir.Threshold)
      [] OTHER -> FALSE

directoryMatchesSize(subdir, iconSize, iconScale) ==
    IF subdir.Scale # iconScale THEN FALSE
    ELSE CASE subdir.Type = "Fixed" -> subdir.Size = iconSize
           [] subdir.Type = "Scaled" ->
                 subdir.MinSize <= iconSize /\ iconSize <= subdir.MaxSize
           [] subdir.Type = "Threshold" ->
                 (subdir.Size - subdir.Threshold) <= iconSize
                 /\ iconSize <= (subdir.Size + subdir.Threshold)
           [] OTHER -> FALSE

directorySizeDistanceOneSided(subdir, iconSize, iconScale) ==
    IF subdir.Type = "Fixed"
    THEN abs(subdir.Size * subdir.Scale - iconSize * iconScale)
    ELSE IF subdir.Type = "Scaled"
    THEN IF iconSize * iconScale < subdir.MinSize * subdir.Scale
         THEN subdir.MinSize * subdir.Scale - iconSize * iconScale
         ELSE 0
    ELSE 0

directorySizeDistance(subdir, iconSize, iconScale) ==
    IF subdir.Type = "Fixed"
    THEN abs(subdir.Size * subdir.Scale - iconSize * iconScale)
    ELSE IF subdir.Type = "Scaled"
    THEN IF iconSize * iconScale < subdir.MinSize * subdir.Scale
         THEN subdir.MinSize * subdir.Scale - iconSize * iconScale
         ELSE IF iconSize * iconScale > subdir.MaxSize * subdir.Scale
         THEN iconSize * iconScale - subdir.MaxSize * subdir.Scale
         ELSE 0
    ELSE IF subdir.Type = "Threshold"
    THEN IF iconSize * iconScale < (subdir.Size - subdir.Threshold) * subdir.Scale
         THEN (subdir.Size - subdir.Threshold) * subdir.Scale - iconSize * iconScale
         ELSE IF iconSize * iconScale > (subdir.Size + subdir.Threshold) * subdir.Scale
         THEN iconSize * iconScale - (subdir.Size + subdir.Threshold) * subdir.Scale
         ELSE 0
    ELSE 0

-----------------------------------------------------------------------------
(***************************************************************************)
(* Files and the per-theme lookup.                                         *)
(***************************************************************************)

\* filepath.Join: the non-empty elements, in order
Join(elems) == SelectSeq(elems, LAMBDA e : e # "")

\* fmt.Sprintf("%s.%s", iconName, ext)
FileName(iconName, ext) == iconName \o "." \o ext

fileExists(filename) == filename \in files

extensions == <<"png", "svg", "xpm">>

MaxInt == 2147483647

\* State of the loops of LookupIcon: [done, file, closest, minDistance].
\* One (subdir, ext) iteration of the inner loop.
LookupExt(st, iconName, size, scale, th, subdir, ext) ==
    LET filename == Join(<<th.BasePath, subdir.PathName, FileName(iconName, ext)>>) IN
    IF st.done THEN st
    ELSE IF fileExists(filename) /\ directoryMatchesSize(subdir, size, scale)
    THEN [st EXCEPT !.done = TRUE, !.file = filename]
    ELSE IF fileExists(filename)
    THEN LET distance == directorySizeDistance(subdir, size, scale) IN
         IF distance < st.minDistance
         THEN [st EXCEPT !.closest = filename, !.minDistance = distance]
         ELSE st
    ELSE st

RECURSIVE LookupExts(_, _, _, _, _, _, _)
LookupExts(st, iconName, size, scale, th, subdir, e) ==
    IF e > Len(extensions) THEN st
    ELSE LookupExts(LookupExt(st, iconName, size, scale, th, subdir, extensions[e]),
                    iconName, size, scale, th, subdir, e + 1)

\* the guard of the outer loop body
SubdirSelected(subdir, size, scale) ==
    subdir.Size = size /\ subdir.Scale = scale

RECURSIVE LookupSubdirs(_, _, _, _, _, _)
LookupSubdirs(st, iconName, size, scale, th, i) ==
    IF i > Len(th.Subdirs) THEN st
    ELSE LET subdir == th.Subdirs[i] IN
         LookupSubdirs(IF SubdirSelected(subdir, size, scale)
                       THEN LookupExts(st, iconName, size, scale, th, subdir, 1)
                       ELSE st,
                       iconName, size, scale, th, i + 1)

LookupIcon(iconName, size, scale, th) ==
    LET st == LookupSubdirs([done |-> FALSE, file |-> <<>>, closest |-> <<>>,
                             minDistance |-> MaxInt],
                            iconName, size, scale, th, 1) IN
    IF st.done THEN Ok(st.file)
    ELSE IF st.closest # <<>> THEN Ok(st.closest)
    ELSE Fail("icon not found")

-----------------------------------------------------------------------------
(***************************************************************************)
(* Names: sequences of characters.  "xFF" is a byte that is not valid      *)
(* UTF-8, "uFFFD" the Unicode replacement rune.                            *)
(***************************************************************************)

LowerChars == <<"a", "b", "c", "e", "h", "i", "l", "m", "o", "r", "s">>
UpperChars == <<"A", "B", "C", "E", "H", "I", "L", "M", "O", "R", "S">>

IndexIn(c, chars) ==
    IF \E i \in DOMAIN chars : chars[i] = c
    THEN CHOOSE i \in DOMAIN chars : chars[i] = c
    ELSE 0

\* unicode.ToLower / unicode.ToUpper of one rune; strings.Map writes the
\* replacement rune for a byte that is not valid UTF-8
ToLowerChar(c) ==
    IF c = "xFF" THEN "uFFFD"
    ELSE IF IndexIn(c, UpperChars) # 0 THEN LowerChars[IndexIn(c, UpperChars)]
    ELSE c

ToUpperChar(c) ==
    IF c = "xFF" THEN "uFFFD"
    ELSE IF IndexIn(c, LowerChars) # 0 THEN UpperChars[IndexIn(c, LowerChars)]
    ELSE c

IsLetter(c) == IndexIn(c, LowerChars) # 0 \/ IndexIn(c, UpperChars) # 0

\* strings.ToLower
ToLower(s) == [i \in DOMAIN s |-> ToLowerChar(s[i])]

\* strings.ToUpper
ToUpper(s) == [i \in DOMAIN s |-> ToUpperChar(s[i])]

\* cases.Title(language.English, cases.Compact).String: the first letter of
\* every word in upper case, the other letters of the word in lower case
Title(s) ==
    [i \in DOMAIN s |->
        IF i = 1 \/ ~IsLetter(s[i - 1]) THEN ToUpperChar(s[i]) ELSE ToLowerChar(s[i])]

Str_hicolor == <<"h", "i", "c", "o", "l", "o", "r">>
Str_Hicolor == <<"H", "i", "c", "o", "l", "o", "r">>

-----------------------------------------------------------------------------
(***************************************************************************)
(* The inheritance walk and FindIcon.                                      *)
(***************************************************************************)

\* findIconHelper, lines 115-127: the map key a declared parent resolves to
\* (parentTheme, exists); exists is FALSE when the parent is skipped
ResolveParentUpperFirst(parentName, tm) ==
    IF parentName \in DOMAIN tm THEN [exists |-> TRUE, key |-> parentName]
    ELSE IF ToUpper(parentName) \in DOMAIN tm
    THEN [exists |-> TRUE, key |-> ToUpper(parentName)]
    ELSE IF ToLower(parentName) \in DOMAIN tm
    THEN [exists |-> TRUE, key |-> ToLower(parentName)]
    ELSE IF Title(parentName) \in DOMAIN tm
    THEN [exists |-> TRUE, key |-> Title(parentName)]
    ELSE [exists |-> FALSE, key |-> <<>>]

ResolveParent(parentName, tm) ==
    IF parentName \in DOMAIN tm THEN [exists |-> TRUE, key |-> parentName]
    ELSE IF ToLower(parentName) \in DOMAIN tm
    THEN [exists |-> TRUE, key |-> ToLower(parentName)]
    ELSE IF ToUpper(parentName) \in DOMAIN tm
    THEN [exists |-> TRUE, key |-> ToUpper(parentName)]
    ELSE IF Title(parentName) \in DOMAIN tm
    THEN [exists |-> TRUE, key |-> Title(parentName)]
    ELSE [exists |-> FALSE, key |-> <<>>]

\* lookupFallbackIcon
fallbackDirs == <<"/usr/share/icons", "/usr/share/pixmaps">>

RECURSIVE FallbackScan(_, _, _)
FallbackScan(iconName, d, e) ==
    IF d > Len(fallbackDirs) THEN Fail("fallback icon not found")
    ELSE IF e > Len(extensions) THEN FallbackScan(iconName, d + 1, 1)
    ELSE LET filename == Join(<<fallbackDirs[d], FileName(iconName, extensions[e])>>) IN
         IF fileExists(filename) THEN Ok(filename)
         ELSE FallbackScan(iconName, d, e + 1)

lookupFallbackIcon(iconName) == FallbackScan(iconName, 1, 1)

TheIcon == "test"

\* the iconName argument of the running FindIcon call: FindIconDefaults passes
\* its own icon argument on (line 143), a direct call looks for TheIcon
CurrentIcon ==
    IF dflt.stack = <<>> THEN TheIcon ELSE dflt.stack[Len(dflt.stack)].icon

\* what a step of FindIcon leaves alone
FindFrame ==
    /\ UNCHANGED <<reqSize, reqScale, theme, files>>
    /\ UNCHANGED <<rule, sizeOut, lookupOut, now, dataDirs, cacheFile, cacheOut>>
    /\ UNCHANGED <<dflt, callers, parsed, daemon>>

\* One activation of findIconHelper: its theme argument, the map key and the
\* declared parent name and position it was reached by (empty and 0 for the
\* first call of a walk), and idx: 0 before LookupIcon, then the index of the
\* next parent.
Frame(th, key, parent, pidx) ==
    [theme |-> th, key |-> key, parent |-> parent, pidx |-> pidx, idx |-> 0]

\* FindIcon is called with (TheIcon, reqSize, reqScale, theme, themeMap):
\* line 215, the call of findIconHelper on the requested theme
FindIconCall ==
    /\ pc = "idle"
    /\ pc' = "walk1"
    /\ stack' = <<Frame(theme, <<>>, <<>>, 0)>>
    /\ UNCHANGED <<log, result, themeMap>>
    /\ FindFrame

\* findIconHelper, lines 110-113: a call starts with LookupIcon on its theme;
\* on success the file is returned through every caller (lines 129-131) and
\* out of FindIcon (lines 216-218, 227-229)
HelperLookup ==
    /\ pc \in {"walk1", "walk2"}
    /\ stack # <<>>
    /\ LET top == stack[Len(stack)]
           r == LookupIcon(CurrentIcon, reqSize, reqScale, top.theme) IN
       /\ top.idx = 0
       /\ log' = Append(log, [kind |-> "visit", stage |-> pc, key |-> top.key,
                              parent |-> top.parent, pidx |-> top.pidx,
                              base |-> top.theme.BasePath,
                              depth |-> Len(stack), found |-> (r.err = "nil")])
       /\ IF r.err = "nil"
          THEN /\ result' = r
               /\ stack' = <<>>
               /\ pc' = "done"
          ELSE /\ stack' = [stack EXCEPT ![Len(stack)].idx = 1]
               /\ UNCHANGED <<result, pc>>
    /\ UNCHANGED themeMap
    /\ FindFrame

HelperParentGuarded ==
    /\ pc \in {"walk1", "walk2"}
    /\ stack # <<>>
    /\ LET top == stack[Len(stack)] IN
       /\ top.idx >= 1
       /\ top.idx <= Len(top.theme.Parents)
       /\ LET parentName == top.theme.Parents[top.idx]
              res == ResolveParent(parentName, themeMap)
              caller == [stack EXCEPT ![Len(stack)].idx = top.idx + 1] IN
          IF ~res.exists \/ \E n \in DOMAIN stack : stack[n].theme = themeMap[res.key]
          THEN /\ stack' = caller
               /\ log' = Append(log, [kind |-> "skip", stage |-> pc, key |-> <<>>,
                                      parent |-> parentName, pidx |-> top.idx,
                                      base |-> "",
                                      depth |-> Len(stack) + 1, found |-> FALSE])
          ELSE /\ Len(stack) < MaxDepth
               /\ stack' = Append(caller, Frame(themeMap[res.key], res.key, parentName, top.idx))
               /\ UNCHANGED log
    /\ UNCHANGED <<pc, result, themeMap>>
    /\ FindFrame

\* findIconHelper, lines 114-128: the next parent of the loop; an unresolvable
\* name is skipped (continue), a resolved one is searched recursively
HelperParent ==
    /\ pc \in {"walk1", "walk2"}
    /\ stack # <<>>
    /\ LET top == stack[Len(stack)] IN
       /\ top.idx >= 1
       /\ top.idx <= Len(top.theme.Parents)
       /\ LET parentName == top.theme.Parents[top.idx]
              res == ResolveParent(parentName, themeMap)
              caller == [stack EXCEPT ![Len(stack)].idx = top.idx + 1] IN
          IF ~res.exists
          THEN /\ stack' = caller
               /\ log' = Append(log, [kind |-> "skip", stage |-> pc, key |-> <<>>,
                                      parent |-> parentName, pidx |-> top.idx,
                                      base |-> "",
                                      depth |-> Len(stack) + 1, found |-> FALSE])
          ELSE /\ Len(stack) < MaxDepth
               /\ stack' = Append(caller, Frame(themeMap[res.key], res.key, parentName, top.idx))
               /\ UNCHANGED log
    /\ UNCHANGED <<pc, result, themeMap>>
    /\ FindFrame

\* where FindIcon goes on when the walk of a stage returned an error
AfterWalkNoHicolor(stage) == "fallback"

AfterWalk(stage) == IF stage = "walk1" THEN "hicolor" ELSE "fallback"

HelperFailAfterFirstParent ==
    /\ pc \in {"walk1", "walk2"}
    /\ stack # <<>>
    /\ LET top == stack[Len(stack)] IN
       /\ top.idx > Len(top.theme.Parents) \/ top.idx >= 2
       /\ stack' = SubSeq(stack, 1, Len(stack) - 1)
       /\ pc' = IF Len(stack) = 1 THEN AfterWalk(pc) ELSE pc
    /\ UNCHANGED <<log, result, themeMap>>
    /\ FindFrame

\* findIconHelper, line 133: every parent failed, the call returns the error;
\* the caller goes on with its next parent (line 129), FindIcon with its next
\* stage (lines 216, 227)
HelperFail ==
    /\ pc \in {"walk1", "walk2"}
    /\ stack # <<>>
    /\ LET top == stack[Len(stack)] IN
       /\ top.idx > Len(top.theme.Parents)
       /\ stack' = SubSeq(stack, 1, Len(stack) - 1)
       /\ pc' = IF Len(stack) = 1 THEN AfterWalk(pc) ELSE pc
    /\ UNCHANGED <<log, result, themeMap>>
    /\ FindFrame

\* FindIcon, lines 219-226: the hicolor theme, under the key "hicolor", else
\* "Hicolor"; without either FindIcon returns an error
FindIconHicolor ==
    /\ pc = "hicolor"
    /\ IF Str_hicolor \in DOMAIN themeMap
       THEN /\ stack' = <<Frame(themeMap[Str_hicolor], Str_hicolor, <<>>, 0)>>
            /\ pc' = "walk2"
            /\ UNCHANGED result
       ELSE IF Str_Hicolor \in DOMAIN themeMap
       THEN /\ stack' = <<Frame(themeMap[Str_Hicolor], Str_Hicolor, <<>>, 0)>>
            /\ pc' = "walk2"
            /\ UNCHANGED result
       ELSE /\ result' = Fail("hicolor theme not found")
            /\ pc' = "done"
            /\ UNCHANGED stack
    /\ UNCHANGED <<log, themeMap>>
    /\ FindFrame

\* FindIcon, line 230
FindIconFallback ==
    /\ pc = "fallback"
    /\ result' = lookupFallbackIcon(CurrentIcon)
    /\ pc' = "done"
    /\ UNCHANGED <<stack, log, themeMap>>
    /\ FindFrame

-----------------------------------------------------------------------------
(***************************************************************************)
(* Values of the variables a specification does not use.                   *)
(***************************************************************************)

NoRule == Subdir("", "", 0, 0, 0, 0, 0, "")
NoSizeOut == [matched |-> FALSE, matches |-> FALSE, measured |-> FALSE, distance |-> 0]
NoLookupOut == [done |-> FALSE, file |-> <<>>, err |-> "nil"]
NoResult == Ok(<<>>)
NoCacheFile == [exists |-> FALSE, mtime |-> 0, content |-> <<>>]
NoCacheOut == [kind |-> "none", hadFile |-> FALSE, age |-> 0, map |-> <<>>,
               written |-> <<>>]

SizeIdle == rule = NoRule /\ sizeOut = NoSizeOut
LookupIdle == lookupOut = NoLookupOut
FindIdle == themeMap = <<>> /\ pc = "off" /\ stack = <<>> /\ log = <<>> /\ result = NoResult
CacheIdle == now = 0 /\ dataDirs = <<>> /\ cacheFile = NoCacheFile /\ cacheOut = NoCacheOut

NoDefaults == [stack |-> <<>>, calls |-> <<>>, finds |-> <<>>,
               out |-> [state |-> "none", value |-> NoResult]]
NoCallers == [procs |-> <<>>, overlapped |-> FALSE, rebuilt |-> <<>>]
NoParsed == [lines |-> <<>>, themes |-> <<>>, found |-> <<>>]
NoDaemon == [state |-> "none"]

LaterIdle ==
    dflt = NoDefaults /\ callers = NoCallers /\ parsed = NoParsed /\ daemon = NoDaemon

-----------------------------------------------------------------------------
(***************************************************************************)
(* SpecSize: directoryMatchesSize and directorySizeDistance on every rule  *)
(* and request of the bounded domain.                                      *)
(***************************************************************************)

Types == {"Fixed", "Scaled", "Threshold", ""}
Dims == 0 .. MaxDim
ReqSizes == 1 .. MaxDim + 1
Scales == 0 .. MaxScale
ReqScales == 1 .. MaxScale

InitSize ==
    /\ \E t \in Types, sz \in Dims, mn \in Dims, mx \in Dims,
          th \in 0 .. MaxThreshold, sc \in Scales :
          rule = Subdir(t, "dir", sz, mn, mx, th, sc, "")
    /\ reqSize \in ReqSizes
    /\ reqScale \in ReqScales
    /\ sizeOut = NoSizeOut
    /\ theme = ZeroTheme
    /\ files = {}
    /\ LookupIdle /\ FindIdle /\ CacheIdle /\ LaterIdle

CallMatches ==
    /\ ~sizeOut.matched
    /\ sizeOut' = [sizeOut EXCEPT !.matched = TRUE,
                                  !.matches = directoryMatchesSize(rule, reqSize, reqScale)]
    /\ UNCHANGED <<rule, reqSize, reqScale, theme, files>>
    /\ UNCHANGED <<lookupVars, findVars, cacheVars, laterVars>>

CallDistance ==
    /\ ~sizeOut.measured
    /\ sizeOut' = [sizeOut EXCEPT !.measured = TRUE,
                                  !.distance = directorySizeDistance(rule, reqSize, reqScale)]
    /\ UNCHANGED <<rule, reqSize, reqScale, theme, files>>
    /\ UNCHANGED <<lookupVars, findVars, cacheVars, laterVars>>

NextSize == CallMatches \/ CallDistance

SpecSize == InitSize /\ [][NextSize]_vars

-----------------------------------------------------------------------------
(***************************************************************************)
(* SpecLookup: LookupIcon on themes built from a pool of directory rules.  *)
(***************************************************************************)

Fixed16      == Subdir("Fixed", "16x16/apps", 16, 0, 0, 0, 1, "")
Fixed16b     == Subdir("Fixed", "16x16/actions", 16, 0, 0, 0, 1, "")
Fixed16x2    == Subdir("Fixed", "16x16@2/apps", 16, 0, 0, 0, 2, "")
Threshold32  == Subdir("Threshold", "32x32/apps", 32, 0, 0, 8, 1, "")
Threshold28  == Subdir("Threshold", "28x28/apps", 28, 0, 0, 2, 1, "")
Scaled16     == Subdir("Scaled", "scalable/apps", 16, 20, 40, 0, 1, "")

RulePool == {Fixed16, Fixed16b, Fixed16x2, Threshold32, Threshold28, Scaled16}

\* the sequences without repetition of at most n rules of the pool
RECURSIVE RuleSeqs(_)
RuleSeqs(n) ==
    IF n = 0 THEN {<<>>}
    ELSE LET shorter == RuleSeqs(n - 1) IN
         shorter \cup {Append(q, r) : q \in {x \in shorter : Len(x) = n - 1},
                                      r \in RulePool}

NoRepeat(q) == \A i, j \in DOMAIN q : i # j => q[i] # q[j]

ExtSets == {{}, {"png"}, {"svg"}, {"xpm"}, {"png", "svg"}, {"svg", "xpm"}}

IconFile(base, dir, ext) == Join(<<base, dir, FileName(TheIcon, ext)>>)

FooBase == "/usr/share/icons/Foo"
Str_Foo == <<"F", "o", "o">>

InitLookup ==
    /\ \E q \in {x \in RuleSeqs(MaxSubdirs) : NoRepeat(x)} :
          /\ theme = Theme(Str_Foo, q, <<>>, FooBase)
          /\ \E present \in [DOMAIN q -> ExtSets] :
                files = {IconFile(FooBase, q[i].PathName, e) :
                            i \in DOMAIN q, e \in {"png", "svg", "xpm"}}
                        \cap UNION {{IconFile(FooBase, q[i].PathName, e) : e \in present[i]} :
                                        i \in DOMAIN q}
    /\ reqSize \in {16, 28}
    /\ reqScale \in ReqScales
    /\ lookupOut = NoLookupOut
    /\ SizeIdle /\ FindIdle /\ CacheIdle /\ LaterIdle

LookupCall ==
    /\ ~lookupOut.done
    /\ LET r == LookupIcon(TheIcon, reqSize, reqScale, theme) IN
       lookupOut' = [done |-> TRUE, file |-> r.file, err |-> r.err]
    /\ UNCHANGED <<reqSize, reqScale, theme, files>>
    /\ UNCHANGED <<sizeVars, findVars, cacheVars, laterVars>>

NextLookup == LookupCall

SpecLookup == InitLookup /\ [][NextLookup]_vars

-----------------------------------------------------------------------------
(***************************************************************************)
(* SpecFind: FindIcon("test", 16, 1, themeMap[r], themeMap) on theme maps  *)
(* over the names r, the four spellings of ab, c, hicolor and Hicolor.     *)
(* Every theme has the one directory 16x16/apps (Fixed, 16, scale 1).      *)
(***************************************************************************)

Str_r  == <<"r">>
Str_c  == <<"c">>
Str_ab == <<"a", "b">>
Str_AB == <<"A", "B">>
Str_Ab == <<"A", "b">>
Str_aB == <<"a", "B">>
Str_bc == <<"b", "c">>

Spellings == {Str_ab, Str_AB, Str_Ab, Str_aB}

\* the directory a theme was parsed from
BaseOf(key) ==
    CASE key = Str_r -> "/usr/share/icons/r"
      [] key = Str_c -> "/usr/share/icons/c"
      [] key = Str_ab -> "/usr/share/icons/ab"
      [] key = Str_AB -> "/usr/share/icons/AB"
      [] key = Str_Ab -> "/usr/share/icons/Ab"
      [] key = Str_aB -> "/usr/share/icons/aB"
      [] key = Str_hicolor -> "/usr/share/icons/hicolor"
      [] key = Str_Hicolor -> "/usr/share/icons/Hicolor"

ThemeIcon(key) == IconFile(BaseOf(key), Fixed16.PathName, "png")

PixmapsPng == Join(<<"/usr/share/pixmaps", FileName(TheIcon, "png")>>)
IconsSvg   == Join(<<"/usr/share/icons", FileName(TheIcon, "svg")>>)

FallbackFileSets == {{}, {PixmapsPng}, {IconsSvg, PixmapsPng}}

RootParentLists == {<<>>, <<Str_aB>>, <<Str_aB, Str_c>>, <<Str_bc, Str_aB>>, <<Str_c, Str_aB>>}

InitFind ==
    /\ \E spelled \in SUBSET Spellings, hi \in SUBSET {Str_hicolor, Str_Hicolor},
          cs \in {{}, {Str_c}},
          rp \in RootParentLists, sp \in {<<>>, <<Str_c>>}, cp \in {<<>>, <<Str_r>>},
          withIcon \in SUBSET {"r", "spelled", "c", "hi"},
          fb \in FallbackFileSets :
          LET keys == {Str_r} \cup spelled \cup hi \cup cs
              parentsOf(k) == IF k = Str_r THEN rp
                              ELSE IF k \in Spellings THEN sp
                              ELSE IF k = Str_c THEN cp
                              ELSE <<>>
              iconIn(k) == IF k = Str_r THEN "r" \in withIcon
                           ELSE IF k \in Spellings THEN "spelled" \in withIcon
                           ELSE IF k = Str_c THEN "c" \in withIcon
                           ELSE "hi" \in withIcon
          IN /\ cs = {} => cp = <<>>
             /\ spelled = {} => sp = <<>>
             /\ themeMap = [k \in keys |-> Theme(k, <<Fixed16>>, parentsOf(k), BaseOf(k))]
             /\ files = {ThemeIcon(k) : k \in {x \in keys : iconIn(x)}} \cup fb
    /\ theme = themeMap[Str_r]
    /\ reqSize = 16
    /\ reqScale = 1
    /\ pc = "idle"
    /\ stack = <<>>
    /\ log = <<>>
    /\ result = NoResult
    /\ SizeIdle /\ LookupIdle /\ CacheIdle /\ LaterIdle

NextFind ==
    \/ FindIconCall
    \/ HelperLookup
    \/ HelperParent
    \/ HelperFail
    \/ FindIconHicolor
    \/ FindIconFallback

SpecFind == InitFind /\ [][NextFind]_vars

\* FindIcon on the installations with at most the themes r, ab, aB, c and
\* hicolor, where only c and hicolor may hold the icon; a call that can take a
\* step takes one: the program runs
InitWalk ==
    /\ InitFind
    /\ DOMAIN themeMap \subseteq {Str_r, Str_ab, Str_aB, Str_c, Str_hicolor}
    /\ files \subseteq {ThemeIcon(Str_c), ThemeIcon(Str_hicolor), PixmapsPng}

SpecWalkFair == InitWalk /\ [][NextFind]_vars /\ WF_vars(NextFind)

-----------------------------------------------------------------------------
(***************************************************************************)
(* The theme map builder and the cache.                                    *)
(***************************************************************************)

\* map[key] = value
Put(m, key, value) ==
    [k \in DOMAIN m \cup {key} |-> IF k = key THEN value ELSE m[k]]

\* for key, value := range themeMapv { themeMap[key] = value }
Merge(m, over) ==
    [k \in DOMAIN m \cup DOMAIN over |-> IF k \in DOMAIN over THEN over[k] ELSE m[k]]

\* GenerateThemeMap: the descriptors below iconsDir in the order filepath.Walk
\* visits them; a descriptor that cannot be read aborts the walk
RECURSIVE WalkDescriptors(_, _, _)
WalkDescriptors(descs, i, m) ==
    IF i > Len(descs) THEN [err |-> FALSE, map |-> m]
    ELSE IF ~descs[i].readable THEN [err |-> TRUE, map |-> <<>>]
    ELSE WalkDescriptors(descs, i + 1, Put(m, descs[i].theme.Name, descs[i].theme))

GenerateThemeMapPartial(descs) ==
    WalkDescriptors(SelectSeq(descs, LAMBDA d : d.readable), 1, <<>>)

GenerateThemeMap(descs) == WalkDescriptors(descs, 1, <<>>)

\* CacheThemeMap, lines 183-195: the loop over the data directories
RECURSIVE BuildFrom(_, _, _)
BuildFrom(dirs, i, m) ==
    IF i > Len(dirs) THEN [err |-> FALSE, map |-> m]
    ELSE IF ~dirs[i].icons THEN BuildFrom(dirs, i + 1, m)
    ELSE LET themeMapv == GenerateThemeMap(dirs[i].descs) IN
         IF themeMapv.err THEN [err |-> TRUE, map |-> <<>>]
         ELSE BuildFrom(dirs, i + 1, Merge(m, themeMapv.map))

\* the first byte of a character
ByteOf(c) ==
    CASE c = "xFF" -> 255
      [] c = "uFFFD" -> 239
      [] IndexIn(c, LowerChars) # 0 -> 96 + IndexIn(c, LowerChars)
      [] IndexIn(c, UpperChars) # 0 -> 64 + IndexIn(c, UpperChars)

\* s < t as Go compares strings: byte by byte
RECURSIVE StrLess(_, _)
StrLess(s, t) ==
    IF t = <<>> THEN FALSE
    ELSE IF s = <<>> THEN TRUE
    ELSE IF ByteOf(Head(s)) # ByteOf(Head(t)) THEN ByteOf(Head(s)) < ByteOf(Head(t))
    ELSE StrLess(Tail(s), Tail(t))

\* the keys of a map in the order encoding/json writes them
RECURSIVE SortedKeys(_)
SortedKeys(keys) ==
    IF keys = {} THEN <<>>
    ELSE LET least == CHOOSE k \in keys : \A o \in keys \ {k} : StrLess(k, o) IN
         <<least>> \o SortedKeys(keys \ {least})

\* encoding/json writes a string coerced to valid UTF-8: every invalid byte
\* becomes the replacement rune
JSONString(s) == [i \in DOMAIN s |-> IF s[i] = "xFF" THEN "uFFFD" ELSE s[i]]

\* json of a Theme: Name and Parents are written as JSON strings, Subdirs and
\* BasePath hold ASCII strings and integers, which are written as they are
EncodeTheme(th) ==
    [Name |-> JSONString(th.Name),
     Subdirs |-> th.Subdirs,
     Parents |-> [i \in DOMAIN th.Parents |-> JSONString(th.Parents[i])],
     BasePath |-> th.BasePath]

\* encoder.Encode(themeMap): the JSON object, a sequence of members
Encode(m) ==
    LET ks == SortedKeys(DOMAIN m) IN
    [i \in DOMAIN ks |-> [key |-> JSONString(ks[i]), value |-> EncodeTheme(m[ks[i]])]]

\* decoder.Decode(&themeMap): the members are stored in order, a repeated key
\* overwrites the entry of the earlier member
RECURSIVE DecodeFrom(_, _, _)
DecodeFrom(doc, i, m) ==
    IF i > Len(doc) THEN m
    ELSE DecodeFrom(doc, i + 1, Put(m, doc[i].key, doc[i].value))

Decode(doc) == DecodeFrom(doc, 1, <<>>)

\* 4*time.Hour, in the unit of the clock
FreshWindow == 4

\* time.Since(info.ModTime()) < 4*time.Hour
IsFresh(age) == age < FreshWindow

CacheFrame ==
    /\ UNCHANGED <<rule, reqSize, reqScale, sizeOut, theme, files, lookupOut>>
    /\ UNCHANGED <<themeMap, pc, stack, log, result>>
    /\ UNCHANGED <<dflt, callers, parsed, daemon>>

\* CacheThemeMap(cacheFile) at time t with the data directories dirs: what it
\* returns (kind "fresh", "rebuilt" or "error", and the map) and the cache file
\* it leaves
CacheThemeMap(cf, t, dirs) ==
    IF cf.exists /\ IsFresh(t - cf.mtime)
    THEN [kind |-> "fresh", map |-> Decode(cf.content), file |-> cf]
    ELSE LET built == BuildFrom(dirs, 1, <<>>) IN
         IF built.err
         THEN [kind |-> "error", map |-> <<>>, file |-> cf]
         ELSE [kind |-> "rebuilt", map |-> built.map,
               file |-> [exists |-> TRUE, mtime |-> t, content |-> Encode(built.map)]]

\* a call of CacheThemeMap(cacheFile)
CacheThemeMapCall ==
    /\ LET r == CacheThemeMap(cacheFile, now, dataDirs) IN
       /\ cacheOut' = [kind |-> r.kind, hadFile |-> cacheFile.exists,
                       age |-> IF cacheFile.exists THEN now - cacheFile.mtime ELSE 0,
                       map |-> r.map,
                       written |-> IF r.kind = "rebuilt" THEN r.map ELSE cacheOut.written]
       /\ cacheFile' = r.file
    /\ UNCHANGED <<now, dataDirs>>
    /\ CacheFrame

\* time passes
Tick ==
    /\ now < MaxTime
    /\ now' = now + 1
    /\ UNCHANGED <<dataDirs, cacheFile, cacheOut>>
    /\ CacheFrame

Str_axFF == <<"a", "xFF">>
Str_auFFFD == <<"a", "uFFFD">>

\* the theme directories that may exist below <dir>/icons, in walk order:
\* three themes and a directory whose index.theme cannot be opened
Descriptor(name, parents, base) ==
    [readable |-> TRUE, theme |-> Theme(name, <<Fixed16>>, parents, base)]

Unreadable == [readable |-> FALSE, theme |-> ZeroTheme]

DirChoices(dir) ==
    LET ab == Descriptor(Str_ab, <<Str_hicolor>>, dir \o "/icons/ab")
        bad == Descriptor(Str_axFF, <<>>, dir \o "/icons/latin")
        repl == Descriptor(Str_auFFFD, <<>>, dir \o "/icons/repl")
    IN {[icons |-> FALSE, descs |-> <<>>]}
       \cup {[icons |-> TRUE, descs |-> q] :
               q \in {<<>>, <<ab>>, <<bad>>, <<repl>>, <<ab, bad>>, <<ab, repl>>,
                      <<bad, repl>>, <<ab, bad, repl>>, <<ab, Unreadable>>}}

InitCache ==
    /\ now = 0
    /\ \E d1 \in DirChoices("/usr/local/share"), d2 \in DirChoices("/usr/share") :
          dataDirs = <<d1, d2>>
    /\ cacheFile = NoCacheFile
    /\ cacheOut = NoCacheOut
    /\ reqSize = 0 /\ reqScale = 0
    /\ theme = ZeroTheme
    /\ files = {}
    /\ SizeIdle /\ LookupIdle /\ FindIdle /\ LaterIdle

NextCache == CacheThemeMapCall \/ Tick

SpecCache == InitCache /\ [][NextCache]_vars

-----------------------------------------------------------------------------
(***************************************************************************)
(* FindIconDefaults.                                                       *)
(***************************************************************************)

Str_MiracleOS == <<"M", "i", "r", "a", "c", "l", "e", "O", "S">>

AltIcon == "alt"

\* One activation of FindIconDefaults: its icon and fallback arguments and
\* where it is: "cache" before CacheThemeMap, "find" while FindIcon runs,
\* "wait" while the recursive call of line 150 runs.
Activation(icon, fallback) == [icon |-> icon, fallback |-> fallback, at |-> "cache"]

RecursiveCallChained(act) == Activation(act.fallback, act.fallback)

\* line 150: FindIconDefaults(fallback, size, scale, "")
RecursiveCall(act) == Activation(act.fallback, "")

DefaultsFrame ==
    /\ UNCHANGED <<rule, sizeOut, lookupOut, reqSize, reqScale, files>>
    /\ UNCHANGED <<now, dataDirs, cacheOut>>
    /\ UNCHANGED <<callers, parsed, daemon>>

\* a caller calls FindIconDefaults(TheIcon, reqSize, reqScale, fallback)
DefaultsCall ==
    /\ dflt.stack = <<>>
    /\ dflt.out.state = "none"
    /\ \E fallback \in {"", AltIcon} :
          dflt' = [dflt EXCEPT !.stack = <<Activation(TheIcon, fallback)>>,
                               !.calls = <<[icon |-> TheIcon, fallback |-> fallback,
                                            depth |-> 1]>>]
    /\ UNCHANGED <<theme, themeMap, pc, stack, log, result, cacheFile>>
    /\ DefaultsFrame

\* lines 137-143: the theme map comes from CacheThemeMap, an error of which
\* panics; FindIcon is then called on themeMap["MiracleOS"]
DefaultsCacheThemeMap ==
    /\ dflt.stack # <<>>
    /\ LET top == dflt.stack[Len(dflt.stack)]
           r == CacheThemeMap(cacheFile, now, dataDirs) IN
       /\ top.at = "cache"
       /\ cacheFile' = r.file
       /\ IF r.kind = "error"
          THEN /\ dflt' = [dflt EXCEPT !.stack = <<>>,
                                       !.out = [state |-> "panic", value |-> NoResult]]
               /\ UNCHANGED <<theme, themeMap, pc, stack, log, result>>
          ELSE /\ dflt' = [dflt EXCEPT !.stack[Len(dflt.stack)].at = "find"]
               /\ themeMap' = r.map
               /\ theme' = IF Str_MiracleOS \in DOMAIN r.map
                           THEN r.map[Str_MiracleOS] ELSE ZeroTheme
               /\ pc' = "idle"
               /\ stack' = <<>>
               /\ log' = <<>>
               /\ result' = NoResult
    /\ DefaultsFrame

\* lines 144-153: FindIcon returned; a path is returned, an error with a
\* non-empty fallback makes the recursive call, an error without is returned.
\* The waiting caller returns what its recursive call returns (line 150).
DefaultsAfterFind ==
    /\ dflt.stack # <<>>
    /\ pc = "done"
    /\ LET top == dflt.stack[Len(dflt.stack)]
           found == Append(dflt.finds, [icon |-> top.icon, result |-> result]) IN
       /\ top.at = "find"
       /\ IF result.err # "nil" /\ top.fallback # ""
          THEN dflt' = [dflt EXCEPT
                          !.stack = Append([dflt.stack EXCEPT ![Len(dflt.stack)].at = "wait"],
                                           RecursiveCall(top)),
                          !.calls = Append(dflt.calls,
                                           [icon |-> RecursiveCall(top).icon,
                                            fallback |-> RecursiveCall(top).fallback,
                                            depth |-> Len(dflt.stack) + 1]),
                          !.finds = found]
          ELSE dflt' = [dflt EXCEPT !.stack = <<>>,
                                    !.finds = found,
                                    !.out = [state |-> "returned", value |-> result]]
    /\ pc' = "off"
    /\ UNCHANGED <<theme, themeMap, stack, log, result, cacheFile>>
    /\ DefaultsFrame

MiracleOSBase == "/usr/share/icons/MiracleOS"
HicolorBase == "/usr/share/icons/hicolor"

\* the files an installation may hold for the two icon names
DefaultsFiles ==
    {Join(<<MiracleOSBase, Fixed16.PathName, FileName(TheIcon, "png")>>),
     Join(<<HicolorBase, Fixed16.PathName, FileName(AltIcon, "svg")>>),
     Join(<<"/usr/share/pixmaps", FileName(AltIcon, "xpm")>>),
     Join(<<"/usr/share/pixmaps", FileName(TheIcon, "png")>>)}

DefaultsDirs ==
    LET mos == Descriptor(Str_MiracleOS, <<Str_hicolor>>, MiracleOSBase)
        hic == Descriptor(Str_hicolor, <<>>, HicolorBase)
    IN {<<[icons |-> TRUE, descs |-> q]>> :
          q \in {<<>>, <<mos>>, <<hic>>, <<mos, hic>>, <<mos, Unreadable>>}}

\* the cache file before the first call: none, or one written at time 0 by an
\* earlier run that found only the hicolor theme
DefaultsCacheFiles ==
    {NoCacheFile,
     [exists |-> TRUE, mtime |-> 0,
      content |-> Encode(Str_hicolor :> Theme(Str_hicolor, <<Fixed16>>, <<>>, HicolorBase))]}

InitDefaults ==
    /\ now = 0
    /\ dataDirs \in DefaultsDirs
    /\ cacheFile \in DefaultsCacheFiles
    /\ cacheOut = NoCacheOut
    /\ files \in SUBSET DefaultsFiles
    /\ reqSize = 16
    /\ reqScale = 1
    /\ theme = ZeroTheme
    /\ dflt = NoDefaults
    /\ callers = NoCallers /\ parsed = NoParsed /\ daemon = NoDaemon
    /\ SizeIdle /\ LookupIdle /\ FindIdle

NextDefaults ==
    \/ DefaultsCall
    \/ DefaultsCacheThemeMap
    \/ FindIconCall
    \/ HelperLookup
    \/ HelperParent
    \/ HelperFail
    \/ FindIconHicolor
    \/ FindIconFallback
    \/ DefaultsAfterFind
    \/ Tick

SpecDefaults == InitDefaults /\ [][NextDefaults]_vars

-----------------------------------------------------------------------------
(***************************************************************************)
(* CacheThemeMap step by step, with concurrent callers.                    *)
(*                                                                         *)
(* Here the content of the cache file is a sequence of segments            *)
(* [doc, from, to]: the bytes from .. to-1 of the file are the bytes       *)
(* from .. to-1 of the serialization of doc. Every write of the program    *)
(* starts at offset 0 of a just opened descriptor, so a byte at position p *)
(* of the file is always byte p of some serialization.                     *)
(***************************************************************************)

MaxCalls == 2

RECURSIVE Digits(_)
Digits(n) == IF n < 10 THEN 1 ELSE 1 + Digits(n \div 10)

\* the bytes of the UTF-8 encoding of a character
RuneBytes(c) == IF c = "uFFFD" THEN 3 ELSE 1

RECURSIVE RunesLen(_)
RunesLen(s) == IF s = <<>> THEN 0 ELSE RuneBytes(Head(s)) + RunesLen(Tail(s))

\* the bytes of a JSON string, with its quotes
JSONStringLen(s) == 2 + RunesLen(s)
JSONTextLen(str) == 2 + Len(str)

\* {"Type":..,"PathName":..,"Size":..,"MinSize":..,"MaxSize":..,
\*  "Threshold":..,"Scale":..,"Context":..}
SubdirLen(sd) ==
    84 + JSONTextLen(sd.Type) + JSONTextLen(sd.PathName) + Digits(sd.Size)
       + Digits(sd.MinSize) + Digits(sd.MaxSize) + Digits(sd.Threshold)
       + Digits(sd.Scale) + JSONTextLen(sd.Context)

RECURSIVE SubdirsLen(_)
SubdirsLen(sds) == IF sds = <<>> THEN 0 ELSE SubdirLen(Head(sds)) + SubdirsLen(Tail(sds))

RECURSIVE ParentsLen(_)
ParentsLen(ps) == IF ps = <<>> THEN 0 ELSE JSONStringLen(Head(ps)) + ParentsLen(Tail(ps))

\* a slice: null when nil, else [e1,e2,...]
SliceLen(n, elems) == IF n = 0 THEN 4 ELSE 2 + elems + (n - 1)

\* {"Name":..,"Subdirs":..,"Parents":..,"BasePath":..}
ThemeLen(th) ==
    43 + JSONStringLen(th.Name) + SliceLen(Len(th.Subdirs), SubdirsLen(th.Subdirs))
       + SliceLen(Len(th.Parents), ParentsLen(th.Parents)) + JSONTextLen(th.BasePath)

RECURSIVE MembersLen(_)
MembersLen(doc) ==
    IF doc = <<>> THEN 0
    ELSE JSONStringLen(Head(doc).key) + 1 + ThemeLen(Head(doc).value) + MembersLen(Tail(doc))

\* the bytes encoder.Encode writes: {"key":value,...} and a newline
ByteLen(doc) == 3 + MembersLen(doc) + (IF doc = <<>> THEN 0 ELSE Len(doc) - 1)

\* a file that holds exactly the serialization doc
Whole(doc) == <<[doc |-> doc, from |-> 0, to |-> ByteLen(doc)]>>

\* what is left of a content from position n on
RECURSIVE ClipFrom(_, _)
ClipFrom(segs, n) ==
    IF segs = <<>> THEN <<>>
    ELSE IF Head(segs).to <= n THEN ClipFrom(Tail(segs), n)
    ELSE IF Head(segs).from < n THEN <<[Head(segs) EXCEPT !.from = n]>> \o Tail(segs)
    ELSE segs

\* a write of the serialization doc at offset 0: the bytes behind it stay
WriteAt0(segs, doc) == Whole(doc) \o ClipFrom(segs, ByteLen(doc))

CreateInPlace(cf, t) == [exists |-> TRUE, mtime |-> cf.mtime, content |-> cf.content]

\* os.Create: the file is created or truncated (O_CREATE|O_TRUNC)
Create(cf, t) == [exists |-> TRUE, mtime |-> t, content |-> <<>>]

\* encoder.Encode on the descriptor os.Create returned
WriteFile(cf, t, doc) ==
    [exists |-> TRUE, mtime |-> t, content |-> WriteAt0(cf.content, doc)]

DecodeFileEmptyOk(segs) ==
    IF segs = <<>> THEN [err |-> "nil", map |-> <<>>]
    ELSE [err |-> "nil", map |-> Decode(segs[1].doc)]

\* decoder.Decode on the opened file: the first JSON value of the stream, what
\* follows it is not read; io.EOF on an empty file
DecodeFile(segs) ==
    IF segs = <<>> THEN [err |-> "EOF", map |-> <<>>]
    ELSE [err |-> "nil", map |-> Decode(segs[1].doc)]

\* lines 160-166: which way a call goes
Branch(cf, t) == IF cf.exists /\ IsFresh(t - cf.mtime) THEN "read" ELSE "build"

FreshResultRebuilt(cf, dirs) ==
    [err |-> "nil", map |-> BuildFrom(dirs, 1, <<>>).map]

\* lines 167-178: what the fresh branch returns
FreshResult(cf, dirs) == DecodeFile(cf.content)

\* One caller of CacheThemeMap: where it is, how often it has called, and of
\* its last call the branch taken, the themeMap variable, the error returned
\* and whether the builder ran.
NoCall(n) ==
    [pc |-> "idle", n |-> n, kind |-> "none", map |-> <<>>, err |-> "nil",
     built |-> FALSE]

InFlight(c) == c.pc \notin {"idle", "done"}

CallsFrame ==
    /\ UNCHANGED <<rule, reqSize, reqScale, sizeOut, theme, files, lookupOut>>
    /\ UNCHANGED <<themeMap, pc, stack, log, result, cacheOut>>
    /\ UNCHANGED <<dflt, parsed, daemon>>

\* caller p calls CacheThemeMap(cacheFile)
CallStart(p) ==
    /\ ~InFlight(callers.procs[p])
    /\ callers.procs[p].n < MaxCalls
    /\ callers' = [callers EXCEPT
          !.procs[p] = [NoCall(callers.procs[p].n + 1) EXCEPT !.pc = "check"],
          !.overlapped = callers.overlapped
                         \/ \E q \in DOMAIN callers.procs : q # p /\ InFlight(callers.procs[q])]
    /\ UNCHANGED <<now, dataDirs, cacheFile>>
    /\ CallsFrame

\* lines 160-166
CallCheck(p) ==
    /\ callers.procs[p].pc = "check"
    /\ callers' = [callers EXCEPT !.procs[p].pc = Branch(cacheFile, now)]
    /\ UNCHANGED <<now, dataDirs, cacheFile>>
    /\ CallsFrame

\* lines 167-178
CallRead(p) ==
    /\ callers.procs[p].pc = "read"
    /\ LET r == FreshResult(cacheFile, dataDirs) IN
       callers' = [callers EXCEPT !.procs[p].pc = "done",
                                  !.procs[p].kind = "fresh",
                                  !.procs[p].err = r.err,
                                  !.procs[p].map = r.map]
    /\ UNCHANGED <<now, dataDirs, cacheFile>>
    /\ CallsFrame

\* lines 183-195
CallBuild(p) ==
    /\ callers.procs[p].pc = "build"
    /\ LET built == BuildFrom(dataDirs, 1, <<>>) IN
       callers' = IF built.err
                  THEN [callers EXCEPT !.procs[p].pc = "done",
                                       !.procs[p].kind = "error",
                                       !.procs[p].err = "failed to generate theme map",
                                       !.procs[p].built = TRUE]
                  ELSE [callers EXCEPT !.procs[p].pc = "create",
                                       !.procs[p].map = built.map,
                                       !.procs[p].built = TRUE]
    /\ UNCHANGED <<now, dataDirs, cacheFile>>
    /\ CallsFrame

\* lines 198-202
CallCreate(p) ==
    /\ callers.procs[p].pc = "create"
    /\ cacheFile' = Create(cacheFile, now)
    /\ callers' = [callers EXCEPT !.procs[p].pc = "encode"]
    /\ UNCHANGED <<now, dataDirs>>
    /\ CallsFrame

\* lines 204-210
CallEncode(p) ==
    /\ callers.procs[p].pc = "encode"
    /\ cacheFile' = WriteFile(cacheFile, now, Encode(callers.procs[p].map))
    /\ callers' = [callers EXCEPT
          !.procs[p].pc = "done",
          !.procs[p].kind = "rebuilt",
          !.rebuilt = <<[doc |-> Encode(callers.procs[p].map), at |-> now]>>]
    /\ UNCHANGED <<now, dataDirs>>
    /\ CallsFrame

CallsLocal == "/usr/local/share/icons"
CallsUsr == "/usr/share/icons"

\* the theme directories, before and after themes are installed or removed
CallsDirs ==
    LET abLocal == Descriptor(Str_ab, <<Str_hicolor>>, CallsLocal \o "/ab")
        abUsr == Descriptor(Str_ab, <<>>, CallsUsr \o "/ab")
        cUsr == Descriptor(Str_c, <<>>, CallsUsr \o "/c")
        abCopy == Descriptor(Str_ab, <<Str_c>>, CallsUsr \o "/copy")
        none == [icons |-> FALSE, descs |-> <<>>]
    IN {<<[icons |-> TRUE, descs |-> <<abLocal>>],
          [icons |-> TRUE, descs |-> <<abUsr, abCopy, cUsr>>]>>,
        <<none, [icons |-> TRUE, descs |-> <<cUsr>>]>>,
        <<[icons |-> TRUE, descs |-> <<abLocal, Unreadable>>],
          [icons |-> TRUE, descs |-> <<cUsr>>]>>}

\* themes are installed or removed
DiskChange ==
    /\ \E d \in CallsDirs : d # dataDirs /\ dataDirs' = d
    /\ UNCHANGED <<now, cacheFile, callers>>
    /\ CallsFrame

InitCalls ==
    /\ now = 0
    /\ dataDirs \in CallsDirs
    /\ cacheFile = NoCacheFile
    /\ cacheOut = NoCacheOut
    /\ callers = [procs |-> <<NoCall(0), NoCall(0)>>, overlapped |-> FALSE, rebuilt |-> <<>>]
    /\ reqSize = 0 /\ reqScale = 0
    /\ theme = ZeroTheme
    /\ files = {}
    /\ dflt = NoDefaults /\ parsed = NoParsed /\ daemon = NoDaemon
    /\ SizeIdle /\ LookupIdle /\ FindIdle

NextCalls ==
    \/ \E p \in {1, 2} : CallStart(p)
    \/ \E p \in {1, 2} : CallCheck(p)
    \/ \E p \in {1, 2} : CallRead(p)
    \/ \E p \in {1, 2} : CallBuild(p)
    \/ \E p \in {1, 2} : CallCreate(p)
    \/ \E p \in {1, 2} : CallEncode(p)
    \/ Tick
    \/ DiskChange

SpecCalls == InitCalls /\ [][NextCalls]_vars

-----------------------------------------------------------------------------
(***************************************************************************)
(* parseIndexTheme.                                                        *)
(*                                                                         *)
(* A descriptor is the sequence of its lines after TrimSpace: a comment, a *)
(* section header [name], or key=value, where the value is held as the     *)
(* characters of a name (chars), the items between the commas (list), an   *)
(* integer as strconv.Atoi reads it (num) or a plain text (text).          *)
(***************************************************************************)

MaxParses == 2

CommentLine == [kind |-> "comment", name |-> "", key |-> "", chars |-> <<>>,
                list |-> <<>>, num |-> 0, text |-> ""]
Section(name) == [CommentLine EXCEPT !.kind = "section", !.name = name]
KeyChars(key, chars) == [CommentLine EXCEPT !.kind = "kv", !.key = key, !.chars = chars]
KeyList(key, list) == [CommentLine EXCEPT !.kind = "kv", !.key = key, !.list = list]
KeyNum(key, num) == [CommentLine EXCEPT !.kind = "kv", !.key = key, !.num = num]
KeyText(key, text) == [CommentLine EXCEPT !.kind = "kv", !.key = key, !.text = text]

\* Subdir{Scale: 1, Type: "Threshold"}
InitialSubdir == Subdir("Threshold", "", 0, 0, 0, 0, 1, "")

\* lines 52-55: every name of the Directories list gets an initial entry
RECURSIVE DeclareDirs(_, _, _)
DeclareDirs(subdirs, dirNames, i) ==
    IF i > Len(dirNames) THEN subdirs
    ELSE DeclareDirs(Put(subdirs, dirNames[i], InitialSubdir), dirNames, i + 1)

\* lines 59-74: the switch on the key of a line of a directory section
SetField(subdir, line) ==
    CASE line.key = "Size" -> [subdir EXCEPT !.Size = line.num]
      [] line.key = "MinSize" -> [subdir EXCEPT !.MinSize = line.num]
      [] line.key = "MaxSize" -> [subdir EXCEPT !.MaxSize = line.num]
      [] line.key = "Scale" -> [subdir EXCEPT !.Scale = line.num]
      [] line.key = "Threshold" -> [subdir EXCEPT !.Threshold = line.num]
      [] line.key = "Type" -> [subdir EXCEPT !.Type = line.text]
      [] line.key = "Context" -> [subdir EXCEPT !.Context = line.text]
      [] OTHER -> subdir

\* lines 27-77: one line of the scan; st is [theme, currentSection, subdirs]
ParseLine(st, line) ==
    IF line.kind = "comment" THEN st
    ELSE IF line.kind = "section" THEN [st EXCEPT !.currentSection = line.name]
    ELSE IF st.currentSection = "Icon Theme"
    THEN CASE line.key = "Name" -> [st EXCEPT !.theme.Name = line.chars]
           [] line.key = "Inherits" -> [st EXCEPT !.theme.Parents = line.list]
           [] line.key = "Directories" ->
                  [st EXCEPT !.subdirs = DeclareDirs(st.subdirs, line.list, 1)]
           [] OTHER -> st
    ELSE IF st.currentSection \in DOMAIN st.subdirs
    THEN [st EXCEPT !.subdirs[st.currentSection] =
              [SetField(st.subdirs[st.currentSection], line)
                  EXCEPT !.PathName = st.currentSection]]
    ELSE st

RECURSIVE ParseLines(_, _, _)
ParseLines(st, lines, i) ==
    IF i > Len(lines) THEN st
    ELSE ParseLines(ParseLine(st, lines[i]), lines, i + 1)

\* the orders in which a range over a map with the keys S may visit them: the
\* iteration order of a Go map is not specified and differs between runs
RangeOrders(S) ==
    {q \in [1 .. Cardinality(S) -> S] : \A a, b \in 1 .. Cardinality(S) : a # b => q[a] # q[b]}

\* parseIndexTheme(themeDir) on a readable descriptor: the themes it may return
ParseResults(themeDir, lines) ==
    LET st == ParseLines([theme |-> [ZeroTheme EXCEPT !.BasePath = themeDir],
                          currentSection |-> "", subdirs |-> <<>>], lines, 1)
    IN {[st.theme EXCEPT !.Subdirs = [n \in DOMAIN q |-> st.subdirs[q[n]]]] :
           q \in RangeOrders(DOMAIN st.subdirs)}

ParseFrame ==
    /\ UNCHANGED <<rule, reqSize, reqScale, sizeOut, theme, files, lookupOut>>
    /\ UNCHANGED <<themeMap, pc, stack, log, result>>
    /\ UNCHANGED <<now, dataDirs, cacheFile, cacheOut>>
    /\ UNCHANGED <<dflt, callers, daemon>>

ParsedDir == "/usr/share/icons/foo"

\* a build of the theme map parses the descriptor
ParseCall ==
    /\ Len(parsed.themes) < MaxParses
    /\ Len(parsed.found) = Len(parsed.themes)
    /\ \E th \in ParseResults(ParsedDir, parsed.lines) :
          parsed' = [parsed EXCEPT !.themes = Append(parsed.themes, th)]
    /\ ParseFrame

\* LookupIcon on the theme of the last build
ParsedLookup ==
    /\ Len(parsed.found) < Len(parsed.themes)
    /\ parsed' = [parsed EXCEPT !.found =
          Append(parsed.found,
                 LookupIcon(TheIcon, reqSize, reqScale, parsed.themes[Len(parsed.themes)]))]
    /\ ParseFrame

FixedSection(name, size) ==
    <<Section(name), KeyNum("Size", size), KeyText("Type", "Fixed"),
      KeyText("Context", "Applications")>>

\* the index.theme files of the model
IndexThemes ==
    LET head(parents, dirs) ==
            <<CommentLine, Section("Icon Theme"), KeyChars("Name", Str_Foo)>>
            \o (IF parents = <<>> THEN <<>> ELSE <<KeyList("Inherits", parents)>>)
            \o <<KeyList("Directories", dirs)>>
    IN {head(<<>>, <<"16x16/apps">>) \o FixedSection("16x16/apps", 16)
            \o <<Section("extra"), KeyNum("Size", 16)>>,
        head(<<>>, <<"16x16/apps", "16x16/actions">>)
            \o FixedSection("16x16/apps", 16) \o FixedSection("16x16/actions", 16),
        head(<<Str_hicolor>>, <<"16x16/actions", "16x16/apps">>)
            \o FixedSection("16x16/apps", 16) \o FixedSection("16x16/actions", 16),
        head(<<Str_hicolor>>, <<"16x16/apps", "16x16/actions", "scalable/apps">>)
            \o FixedSection("16x16/apps", 16) \o FixedSection("16x16/actions", 16)
            \o <<Section("scalable/apps"), KeyNum("Size", 16), KeyText("Type", "Scaled"),
                 KeyNum("MinSize", 8), KeyNum("MaxSize", 64)>>}

ParsedFiles ==
    {Join(<<ParsedDir, d, FileName(TheIcon, "png")>>) :
        d \in {"16x16/apps", "16x16/actions", "scalable/apps"}}

InitParse ==
    /\ \E lines \in IndexThemes : parsed = [lines |-> lines, themes |-> <<>>, found |-> <<>>]
    /\ files \in SUBSET ParsedFiles
    /\ reqSize = 16
    /\ reqScale = 1
    /\ theme = ZeroTheme
    /\ dflt = NoDefaults /\ callers = NoCallers /\ daemon = NoDaemon
    /\ SizeIdle /\ LookupIdle /\ FindIdle /\ CacheIdle

NextParse == ParseCall \/ ParsedLookup

SpecParse == InitParse /\ [][NextParse]_vars

-----------------------------------------------------------------------------
(***************************************************************************)
(* The notification daemon.                                                *)
(*                                                                         *)
(* A uint32 is held as the integer of the same 32 bits read as int32:      *)
(* 0 .. 2^31-1 stand for themselves, -1 stands for 2^32-1, -2 for 2^32-2.  *)
(***************************************************************************)

MaxOps == 4

\* x + 1 on uint32
Inc32(x) == IF x = MaxInt THEN -MaxInt - 1 ELSE x + 1

\* a < b on uint32
ULess(a, b) == IF (a >= 0) = (b >= 0) THEN a < b ELSE a >= 0

\* make(chan NotificationEvent, 10)
ChannelCap == 10

\* type Notification struct: the ID, and the Body for the other fields
Notification(id, body) == [ID |-> id, Body |-> body]

\* the zero value: what a map read of a missing key yields
ZeroNotification == Notification(0, "")

\* d.Notifications[id]
NotificationAt(m, id) == IF id \in DOMAIN m THEN m[id] ELSE ZeroNotification

\* delete(d.Notifications, id)
Remove(m, id) == [k \in DOMAIN m \ {id} |-> m[k]]

\* type NotificationEvent struct
NotificationEvent(n, created, modified, deleted) ==
    [Notification |-> n, Created |-> created, Modified |-> modified, Deleted |-> deleted]

NotifyEventByAllocation(n, replacesID, allocated) ==
    NotificationEvent(n, allocated, ~allocated, FALSE)

\* lines 411-416: the event of a Notify call
NotifyEvent(n, replacesID, allocated) ==
    NotificationEvent(n, replacesID = 0, replacesID # 0, FALSE)

Clients == {1, 2}

\* the IDs clients pass: 0, 1, 2, 2^32-2, 2^32-1
ClientIDs == {0, 1, 2, -2, -1}

Bodies == {"x", "y"}

NoEvent == NotificationEvent(ZeroNotification, FALSE, FALSE, FALSE)

\* nothing has been called yet
NoOp == [op |-> "none", arg |-> 0, live |-> FALSE, id |-> 0, nextBefore |-> 0,
         returnedBefore |-> {}, storedBefore |-> <<>>, event |-> NoEvent]

DaemonFrame ==
    /\ UNCHANGED <<rule, reqSize, reqScale, sizeOut, theme, files, lookupOut>>
    /\ UNCHANGED <<themeMap, pc, stack, log, result>>
    /\ UNCHANGED <<now, dataDirs, cacheFile, cacheOut>>
    /\ UNCHANGED <<dflt, callers, parsed>>

\* Notify, lines 384-416: with the mutex taken, the ID is chosen, the
\* notification stored and the event made; the call is then at the send
Notify(c, replacesID, body) ==
    /\ daemon.mu = 0
    /\ daemon.client[c].pc = "idle"
    /\ daemon.ops < MaxOps
    /\ LET allocated == replacesID = 0
                        \/ NotificationAt(daemon.Notifications, replacesID).ID = 0
           id == IF allocated THEN daemon.nextID ELSE replacesID
           notification == Notification(id, body)
           event == NotifyEvent(notification, replacesID, allocated)
       IN daemon' = [daemon EXCEPT
             !.mu = c,
             !.ops = daemon.ops + 1,
             !.nextID = IF allocated THEN Inc32(daemon.nextID) ELSE daemon.nextID,
             !.Notifications = Put(daemon.Notifications, id, notification),
             !.client[c] = [pc |-> "send", event |-> event],
             !.returned = daemon.returned \cup {id},
             !.last = [op |-> "Notify", arg |-> replacesID,
                       live |-> replacesID # 0 /\ replacesID \in DOMAIN daemon.Notifications,
                       id |-> id, nextBefore |-> daemon.nextID,
                       returnedBefore |-> daemon.returned,
                       storedBefore |-> daemon.Notifications,
                       event |-> event]]
    /\ DaemonFrame

\* the body of CloseNotification and of CloseNotificationAsUser, which differ
\* in the reason of the signal: a stored notification is deleted and its event
\* made, the call is then at the send; for an ID that is not stored the call
\* returns at once
CloseBody(c, id, op) ==
    LET exists == id \in DOMAIN daemon.Notifications
        event == IF exists
                 THEN NotificationEvent(daemon.Notifications[id], FALSE, FALSE, TRUE)
                 ELSE NoEvent
    IN [daemon EXCEPT
          !.mu = IF exists THEN c ELSE 0,
          !.ops = daemon.ops + 1,
          !.Notifications = IF exists THEN Remove(daemon.Notifications, id)
                            ELSE daemon.Notifications,
          !.client[c] = IF exists THEN [pc |-> "send", event |-> event]
                        ELSE daemon.client[c],
          !.last = [op |-> op, arg |-> id, live |-> exists, id |-> id,
                    nextBefore |-> daemon.nextID,
                    returnedBefore |-> daemon.returned,
                    storedBefore |-> daemon.Notifications,
                    event |-> event]]

\* lines 429-449, with the mutex taken
CloseNotification(c, id) ==
    /\ daemon.mu = 0
    /\ daemon.client[c].pc = "idle"
    /\ daemon.ops < MaxOps
    /\ daemon' = CloseBody(c, id, "CloseNotification")
    /\ DaemonFrame

\* lines 451-471, with the mutex taken
CloseNotificationAsUser(c, id) ==
    /\ daemon.mu = 0
    /\ daemon.client[c].pc = "idle"
    /\ daemon.ops < MaxOps
    /\ daemon' = CloseBody(c, id, "CloseNotificationAsUser")
    /\ DaemonFrame

SendOrDrop(c) ==
    /\ daemon.client[c].pc = "send"
    /\ daemon' = [daemon EXCEPT
          !.mu = 0,
          !.channel = IF Len(daemon.channel) < ChannelCap
                      THEN Append(daemon.channel, daemon.client[c].event)
                      ELSE daemon.channel,
          !.client[c] = [pc |-> "idle", event |-> NoEvent]]
    /\ DaemonFrame

\* d.NotificationsChannel <- notificationEvent, and the return, which unlocks
\* the mutex: the send waits while the buffer is full
Send(c) ==
    /\ daemon.client[c].pc = "send"
    /\ Len(daemon.channel) < ChannelCap
    /\ daemon' = [daemon EXCEPT
          !.mu = 0,
          !.channel = Append(daemon.channel, daemon.client[c].event),
          !.client[c] = [pc |-> "idle", event |-> NoEvent]]
    /\ DaemonFrame

\* the consumer of NotificationsChannel receives an event
Receive ==
    /\ daemon.channel # <<>>
    /\ daemon' = [daemon EXCEPT !.channel = Tail(daemon.channel)]
    /\ DaemonFrame

\* NewDaemon, or a daemon that has served 2^32-3 notifications, all of them
\* closed and received by now: its nextID is 2^32-2
InitDaemon ==
    /\ \E first \in {1, -2} :
          daemon = [state |-> "running", Notifications |-> <<>>, nextID |-> first,
                    first |-> first, channel |-> <<>>, mu |-> 0, ops |-> 0,
                    client |-> [c \in Clients |-> [pc |-> "idle", event |-> NoEvent]],
                    returned |-> {}, last |-> NoOp]
    /\ reqSize = 0 /\ reqScale = 0
    /\ theme = ZeroTheme
    /\ files = {}
    /\ dflt = NoDefaults /\ callers = NoCallers /\ parsed = NoParsed
    /\ SizeIdle /\ LookupIdle /\ FindIdle /\ CacheIdle

NextDaemon ==
    \/ \E c \in Clients, replacesID \in ClientIDs, body \in Bodies : Notify(c, replacesID, body)
    \/ \E c \in Clients, id \in ClientIDs : CloseNotification(c, id)
    \/ \E c \in Clients, id \in ClientIDs : CloseNotificationAsUser(c, id)
    \/ \E c \in Clients : Send(c)
    \/ Receive

SpecDaemon == InitDaemon /\ [][NextDaemon]_vars

\* the events a daemon started by NewDaemon has buffered after Notify calls
\* with replacesID 0 for which no event was received yet
Undelivered == 8

\* the daemon after Undelivered such calls
InitBacklog ==
    /\ daemon = [state |-> "running",
                 Notifications |-> [id \in 1 .. Undelivered |-> Notification(id, "x")],
                 nextID |-> Undelivered + 1,
                 first |-> 1,
                 channel |-> [id \in 1 .. Undelivered |->
                                 NotifyEvent(Notification(id, "x"), 0, TRUE)],
                 mu |-> 0, ops |-> 0,
                 client |-> [c \in Clients |-> [pc |-> "idle", event |-> NoEvent]],
                 returned |-> 1 .. Undelivered, last |-> NoOp]
    /\ reqSize = 0 /\ reqScale = 0
    /\ theme = ZeroTheme
    /\ files = {}
    /\ dflt = NoDefaults /\ callers = NoCallers /\ parsed = NoParsed
    /\ SizeIdle /\ LookupIdle /\ FindIdle /\ CacheIdle

\* the calls of the clients on the backlog: new and replacing notifications,
\* closes of a stored and of an unknown ID
NextBacklog ==
    \/ \E c \in Clients, replacesID \in {0, 1} : Notify(c, replacesID, "y")
    \/ \E c \in Clients, id \in {0, 2} : CloseNotification(c, id)
    \/ \E c \in Clients : CloseNotificationAsUser(c, 2)
    \/ \E c \in Clients : Send(c)
    \/ Receive

\* a send that can go on does; nothing makes the receiver take an event
SpecBacklogFair ==
    InitBacklog /\ [][NextBacklog]_vars /\ WF_vars(\E c \in Clients : Send(c))

-----------------------------------------------------------------------------
(***************************************************************************)
(* Properties of the size functions (SpecSize).                            *)
(***************************************************************************)

SizeEvaluated == sizeOut.matched /\ sizeOut.measured

ScaledReq == reqSize * reqScale
ScaledLo == rule.MinSize * rule.Scale
ScaledHi == rule.MaxSize * rule.Scale

Smaller(a, b) == IF a <= b THEN a ELSE b

\* C4 as stated: for a Fixed rule, directoryMatchesSize holds iff the size and
\* the scale both equal the rule's, and directorySizeDistance is 0 exactly when
\* directoryMatchesSize holds.
C4_DistanceZeroIffMatches ==
    (rule.Type = "Fixed" /\ SizeEvaluated) =>
        /\ sizeOut.matches <=> (reqSize = rule.Size /\ reqScale = rule.Scale)
        /\ (sizeOut.distance = 0) <=> sizeOut.matches

\* C4 amended: for a Fixed rule, directoryMatchesSize holds iff the size and
\* the scale both equal the rule's; directorySizeDistance is 0 exactly when the
\* scaled sizes are equal (Size*Scale = size*scale), so a match has distance 0,
\* but distance 0 does not imply a match.
C4_FixedMatchAndDistance ==
    (rule.Type = "Fixed" /\ SizeEvaluated) =>
        /\ sizeOut.matches <=> (reqSize = rule.Size /\ reqScale = rule.Scale)
        /\ (sizeOut.distance = 0) <=> (rule.Size * rule.Scale = reqSize * reqScale)
        /\ sizeOut.matches => sizeOut.distance = 0
        /\ sizeOut.distance >= 0

\* a Fixed rule of another scale than the request, at distance 0 without a match
C4_Witness ==
    /\ rule.Type = "Fixed" /\ SizeEvaluated
    /\ rule.Size >= 1 /\ rule.Scale >= 1 /\ rule.Scale # reqScale
    /\ sizeOut.distance = 0 /\ ~sizeOut.matches

\* the distance of the evaluated rule is 0 inside [lo, hi], the gap to the
\* nearer bound outside, and does not decrease on the way from a bound outwards
ScaledDistanceShape ==
    /\ (ScaledLo <= ScaledReq /\ ScaledReq <= ScaledHi) => sizeOut.distance = 0
    /\ ~(ScaledLo <= ScaledReq /\ ScaledReq <= ScaledHi) =>
           sizeOut.distance = Smaller(abs(ScaledReq - ScaledLo), abs(ScaledReq - ScaledHi))
    /\ \A s2 \in ReqSizes :
           /\ (s2 * reqScale <= ScaledReq /\ ScaledReq <= ScaledLo) =>
                 directorySizeDistance(rule, s2, reqScale) >= sizeOut.distance
           /\ (ScaledHi <= ScaledReq /\ ScaledReq <= s2 * reqScale) =>
                 directorySizeDistance(rule, s2, reqScale) >= sizeOut.distance

\* C5 as stated: for every Scaled rule the distance is 0 when the scaled
\* request lies in [MinSize*Scale, MaxSize*Scale], and outside it equals the
\* gap to the nearer bound and is monotonically non-decreasing.
C5_EveryScaledRule ==
    (rule.Type = "Scaled" /\ SizeEvaluated) => ScaledDistanceShape

\* C5 amended: the same, for every Scaled rule whose bounds are in order
\* (MinSize*Scale <= MaxSize*Scale).
C5_OrderedScaledRule ==
    (rule.Type = "Scaled" /\ SizeEvaluated /\ ScaledLo <= ScaledHi) => ScaledDistanceShape

\* a Scaled rule with a non-empty range of several sizes and a request above it
C5_Witness ==
    /\ rule.Type = "Scaled" /\ SizeEvaluated
    /\ 0 < ScaledLo /\ ScaledLo < ScaledHi /\ ScaledReq > ScaledHi + 1
    /\ sizeOut.distance = ScaledReq - ScaledHi

-----------------------------------------------------------------------------
(***************************************************************************)
(* Properties of LookupIcon (SpecLookup).                                  *)
(***************************************************************************)

Range(q) == {q[i] : i \in DOMAIN q}

HasIcon(th, subdir) ==
    \E e \in Range(extensions) : IconFile(th.BasePath, subdir.PathName, e) \in files

FirstExt(th, subdir) ==
    extensions[CHOOSE e \in DOMAIN extensions :
        /\ IconFile(th.BasePath, subdir.PathName, extensions[e]) \in files
        /\ \A e2 \in 1 .. e - 1 :
              IconFile(th.BasePath, subdir.PathName, extensions[e2]) \notin files]

\* the rule's range of accepted sizes, as the matching predicate has it
Accepts(subdir) == directoryMatchesSize(subdir, reqSize, reqScale)

\* C1: when the only rule holding test.png is Threshold Size=32 Threshold=8
\* Scale=1 and no rule has nominal size 28, LookupIcon("test", 28, 1, theme)
\* returns that rule's test.png.
C1_ThresholdRuleServesSize28 ==
    (/\ lookupOut.done
     /\ reqSize = 28 /\ reqScale = 1
     /\ Threshold32 \in Range(theme.Subdirs)
     /\ files = {IconFile(theme.BasePath, Threshold32.PathName, "png")}
     /\ \A sd \in Range(theme.Subdirs) : sd.Size # 28)
    => /\ lookupOut.err = "nil"
       /\ lookupOut.file = IconFile(theme.BasePath, Threshold32.PathName, "png")

\* C9: when some rule that the matching predicate accepts holds the icon,
\* LookupIcon returns the file of the first such rule in Subdirs order, with
\* the first existing extension of png, svg, xpm.
C9_FirstAcceptedRuleWins ==
    (/\ lookupOut.done
     /\ \E i \in DOMAIN theme.Subdirs :
           Accepts(theme.Subdirs[i]) /\ HasIcon(theme, theme.Subdirs[i]))
    => LET first == CHOOSE i \in DOMAIN theme.Subdirs :
                       /\ Accepts(theme.Subdirs[i]) /\ HasIcon(theme, theme.Subdirs[i])
                       /\ \A j \in 1 .. i - 1 :
                             ~(Accepts(theme.Subdirs[j]) /\ HasIcon(theme, theme.Subdirs[j]))
       IN /\ lookupOut.err = "nil"
          /\ lookupOut.file = IconFile(theme.BasePath, theme.Subdirs[first].PathName,
                                       FirstExt(theme, theme.Subdirs[first]))

-----------------------------------------------------------------------------
(***************************************************************************)
(* Properties of the inheritance walk and of FindIcon (SpecFind).          *)
(***************************************************************************)

\* the four spellings of a declared parent name, in the order of preference
Candidates(p) == <<p, ToLower(p), ToUpper(p), Title(p)>>

Resolvable(p) == \E i \in 1 .. 4 : Candidates(p)[i] \in DOMAIN themeMap

Resolved(p) ==
    Candidates(p)[CHOOSE i \in 1 .. 4 :
        /\ Candidates(p)[i] \in DOMAIN themeMap
        /\ \A j \in 1 .. i - 1 : Candidates(p)[j] \notin DOMAIN themeMap]

\* the map keys of the resolvable parents of a theme
ParentKeys(th) == {Resolved(th.Parents[i]) : i \in {x \in DOMAIN th.Parents :
                                                      Resolvable(th.Parents[x])}}

RECURSIVE Closure(_, _)
Closure(keys, n) ==
    IF n = 0 THEN keys
    ELSE Closure(keys \cup UNION {ParentKeys(themeMap[k]) : k \in keys}, n - 1)

\* the map keys of all ancestors of a theme
Ancestors(th) == Closure(ParentKeys(th), Cardinality(DOMAIN themeMap))

Holds(th) == LookupIcon(TheIcon, reqSize, reqScale, th).err = "nil"

\* the icon is somewhere in the theme or its ancestors
ChainHolds(th) == Holds(th) \/ \E k \in Ancestors(th) : Holds(themeMap[k])

\* the files LookupIcon finds in the theme and its ancestors
ChainFiles(th) ==
    {LookupIcon(TheIcon, reqSize, reqScale, t).file :
        t \in {x \in {th} \cup {themeMap[k] : k \in Ancestors(th)} : Holds(x)}}

HasHicolor == Str_hicolor \in DOMAIN themeMap \/ Str_Hicolor \in DOMAIN themeMap

HicolorTheme ==
    IF Str_hicolor \in DOMAIN themeMap THEN themeMap[Str_hicolor] ELSE themeMap[Str_Hicolor]

FallbackFiles ==
    {Join(<<fallbackDirs[d], FileName(TheIcon, extensions[e])>>) :
        d \in DOMAIN fallbackDirs, e \in DOMAIN extensions}

Visits(stage) == {n \in DOMAIN log : log[n].kind = "visit" /\ log[n].stage = stage}

FoundIn(stage) == \E n \in Visits(stage) : log[n].found

EntryTheme(e) == IF e.key = <<>> THEN theme ELSE themeMap[e.key]

\* the visit of the caller of log entry n: the last visit above it before n
CallerOf(n) ==
    CHOOSE a \in 1 .. n - 1 :
        /\ log[a].kind = "visit" /\ log[a].depth = log[n].depth - 1
        /\ \A b \in a + 1 .. n - 1 : ~(log[b].kind = "visit" /\ log[b].depth = log[n].depth - 1)

\* the walk of a stage has returned to FindIcon
WalkOver(stage) ==
    IF stage = "walk1" THEN pc \in {"hicolor", "walk2", "fallback", "done"}
    ELSE pc \in {"fallback", "done"} /\ Visits("walk2") # {}

\* C2: when the icon is found neither by the walk from the requested theme nor
\* in a hicolor theme of the map and /usr/share/pixmaps/test.png exists (as
\* the only fallback file), FindIcon returns that path and no error.
C2_PixmapsFallbackReturned ==
    (/\ pc = "done"
     /\ ~FoundIn("walk1") /\ ~FoundIn("walk2")
     /\ files \cap FallbackFiles = {PixmapsPng})
    => result = Ok(PixmapsPng)

\* C6: the walk is depth-first in declaration order.  (1) When a parent of a
\* theme is searched, every earlier resolvable parent of that theme and all
\* its ancestors have been searched since the theme itself was, without
\* success.  (2) When the walk from the requested theme is over without a
\* file, the theme and all its ancestors have been searched.  (3) The file
\* returned is the one LookupIcon finds in the first theme searched that has
\* the icon: no search before it succeeded and none follows it.
C6_DepthFirstInDeclarationOrder ==
    /\ \A n \in DOMAIN log :
          (log[n].kind = "visit" /\ log[n].depth >= 2) =>
              LET a == CallerOf(n)
                  callerTheme == EntryTheme(log[a]) IN
              \A i \in 1 .. log[n].pidx - 1 :
                  Resolvable(callerTheme.Parents[i]) =>
                      LET first == Resolved(callerTheme.Parents[i]) IN
                      \A k \in {first} \cup Ancestors(themeMap[first]) :
                          \E m \in a + 1 .. n - 1 :
                              /\ log[m].kind = "visit" /\ log[m].key = k
                              /\ ~log[m].found
    /\ (WalkOver("walk1") /\ ~FoundIn("walk1")) =>
          /\ \E n \in Visits("walk1") : log[n].key = <<>>
          /\ \A k \in Ancestors(theme) : \E n \in Visits("walk1") : log[n].key = k
    /\ \A n \in DOMAIN log :
          (log[n].kind = "visit" /\ log[n].found) =>
              /\ n = Len(log)
              /\ \A m \in 1 .. n - 1 : ~log[m].found
              /\ pc = "done"
              /\ result = LookupIcon(TheIcon, reqSize, reqScale, EntryTheme(log[n]))

\* theme r with two parents: an ancestor of the first parent was searched
\* before the second parent, all in vain, and FindIcon went on to hicolor
C6_Witness ==
    /\ pc \in {"walk2", "done"}
    /\ Len(theme.Parents) = 2
    /\ \E n, m \in Visits("walk1") :
          /\ n < m
          /\ log[n].depth = 3 /\ log[m].depth = 2 /\ log[m].pidx = 2
    /\ ~FoundIn("walk1")
    /\ Visits("walk2") # {}

\* C7: a declared parent is searched under the first present key among the
\* name verbatim, lower-cased, upper-cased and title-cased; a parent with none
\* of the four keys is skipped, and the walk goes on with the parents after it.
C7_ParentKeyPreference ==
    /\ \A n \in DOMAIN log :
          /\ (log[n].kind = "visit" /\ log[n].depth >= 2) =>
                /\ Resolvable(log[n].parent)
                /\ log[n].key = Resolved(log[n].parent)
          /\ log[n].kind = "skip" =>
                /\ ~Resolvable(log[n].parent)
                /\ ~log[n].found
    /\ \A stage \in {"walk1", "walk2"} :
          (WalkOver(stage) /\ ~FoundIn(stage)) =>
              \A n \in Visits(stage) :
                  \A i \in DOMAIN EntryTheme(log[n]).Parents :
                      \E m \in n + 1 .. Len(log) :
                          /\ log[m].stage = stage
                          /\ log[m].depth = log[n].depth + 1
                          /\ log[m].pidx = i
                          /\ log[m].parent = EntryTheme(log[n]).Parents[i]
                          /\ log[m].kind =
                                IF Resolvable(EntryTheme(log[n]).Parents[i])
                                THEN "visit" ELSE "skip"

\* parent bc has no key and was skipped; the next parent aB, absent verbatim,
\* lower-cased and upper-cased, was searched under its title-cased key Ab
C7_Witness ==
    /\ pc = "done"
    /\ \E n, m \in DOMAIN log :
          /\ n < m
          /\ log[n].kind = "skip" /\ log[n].parent = Str_bc
          /\ log[m].kind = "visit" /\ log[m].parent = Str_aB /\ log[m].key = Str_Ab
          /\ log[m].found
    /\ result = Ok(ThemeIcon(Str_Ab))

\* C10: the stages of FindIcon come in the order requested theme, hicolor,
\* fallback directories.  (1) An icon in the requested theme or its ancestors
\* is resolved from there.  (2) Otherwise an icon in the hicolor theme (key
\* "hicolor", else "Hicolor") or its ancestors is resolved from there; the
\* hicolor theme's own file if it has one.  (3) A fallback file is returned
\* only when neither chain holds the icon.
C10_FallbackChainOrder ==
    pc = "done" =>
        /\ ChainHolds(theme) => (result.err = "nil" /\ result.file \in ChainFiles(theme))
        /\ (~ChainHolds(theme) /\ HasHicolor /\ ChainHolds(HicolorTheme)) =>
              /\ result.err = "nil"
              /\ result.file \in ChainFiles(HicolorTheme)
              /\ Holds(HicolorTheme) =>
                    result = LookupIcon(TheIcon, reqSize, reqScale, HicolorTheme)
        /\ (result.err = "nil" /\ result.file \in FallbackFiles) =>
              /\ ~ChainHolds(theme)
              /\ HasHicolor /\ ~ChainHolds(HicolorTheme)
              /\ result = lookupFallbackIcon(TheIcon)

\* the icon is absent from r and its ancestors, c among them, and in both
\* hicolor themes: the file of the theme under the key "hicolor" is returned
C10_Witness ==
    /\ pc = "done"
    /\ Str_c \in Ancestors(theme)
    /\ ~ChainHolds(theme)
    /\ Str_hicolor \in DOMAIN themeMap /\ Str_Hicolor \in DOMAIN themeMap
    /\ PixmapsPng \in files
    /\ result = Ok(ThemeIcon(Str_hicolor))

-----------------------------------------------------------------------------
(***************************************************************************)
(* Properties of the cache (SpecCache).                                    *)
(***************************************************************************)

\* C3: a cache file whose age equals the freshness window is fresh: the call
\* serves the cached content and does not rebuild.
C3_BoundaryAgeIsFresh ==
    (cacheOut.kind # "none" /\ cacheOut.hadFile /\ cacheOut.age = FreshWindow)
    => cacheOut.kind = "fresh"

\* C8: the map a call reads from a fresh cache file equals the map that the
\* preceding rebuild serialized into the file.
C8_CacheRoundTrip ==
    cacheOut.kind = "fresh" => cacheOut.map = cacheOut.written

-----------------------------------------------------------------------------
(***************************************************************************)
(* Properties of FindIconDefaults (SpecDefaults).                          *)
(***************************************************************************)

\* the file name of a path
Base(path) == path[Len(path)]

NamesIcon(res, icon) ==
    res.err = "nil" => \E e \in DOMAIN extensions : Base(res.file) = FileName(icon, extensions[e])

\* C11: FindIconDefaults makes at most one fallback substitution. There are
\* never more than two activations; a second one exists only after the search
\* for the icon failed with a non-empty fallback name, and it searches the
\* fallback name with an empty further fallback. What is returned is the first
\* search's result when that is a path or the fallback name is empty (the
\* original error), and otherwise the result of the one search for the
\* fallback name, path or error.
C11_SingleFallbackSubstitution ==
    /\ Len(dflt.stack) <= 2
    /\ Len(dflt.calls) <= 2
    /\ Len(dflt.finds) <= Len(dflt.calls)
    /\ \A n \in DOMAIN dflt.calls : dflt.calls[n].depth = n
    /\ \A n \in DOMAIN dflt.finds : /\ dflt.finds[n].icon = dflt.calls[n].icon
                                    /\ NamesIcon(dflt.finds[n].result, dflt.calls[n].icon)
    /\ Len(dflt.calls) = 2 =>
          /\ dflt.finds # <<>>
          /\ dflt.finds[1].result.err # "nil"
          /\ dflt.calls[1].fallback # ""
          /\ dflt.calls[2].icon = dflt.calls[1].fallback
          /\ dflt.calls[2].fallback = ""
    /\ dflt.out.state = "returned" =>
          IF dflt.finds[1].result.err = "nil" \/ dflt.calls[1].fallback = ""
          THEN /\ Len(dflt.calls) = 1
               /\ dflt.out.value = dflt.finds[1].result
          ELSE /\ Len(dflt.calls) = 2
               /\ Len(dflt.finds) = 2
               /\ dflt.out.value = dflt.finds[2].result

\* the icon is not found, the fallback name is given and is not found either:
\* the error of the one search for the fallback name has been returned
C11_Witness ==
    /\ dflt.out.state = "returned"
    /\ Len(dflt.calls) = 2
    /\ dflt.calls[1].fallback = AltIcon
    /\ dflt.out.value.err # "nil"

-----------------------------------------------------------------------------
(***************************************************************************)
(* Properties of the cache under concurrent callers (SpecCalls).           *)
(***************************************************************************)

Procs == DOMAIN callers.procs

\* caller p takes a step from position a to position b
Moves(p, a, b) == callers.procs[p].pc = a /\ callers'.procs[p].pc = b

\* the last rebuild that completed
LastDoc == callers.rebuilt[1].doc
LastAt == callers.rebuilt[1].at

\* C12: a call that finds the cache file existing and fresh goes to the read
\* branch, never runs the builder and leaves the cache file as it is; when
\* calls do not overlap, it returns without error the decoding of what the
\* last rebuild wrote, and the file is still as that rebuild left it, whatever
\* the theme directories are by now.
C12_FreshCallReadsOnly ==
    [][\A p \in Procs :
          /\ (callers.procs[p].pc = "check" /\ callers'.procs[p].pc # "check"
                /\ cacheFile.exists /\ now - cacheFile.mtime < FreshWindow)
                => /\ callers'.procs[p].pc = "read"
                   /\ cacheFile' = cacheFile
          /\ callers.procs[p].pc = "read" /\ callers'.procs[p] # callers.procs[p]
                => /\ callers'.procs[p].pc = "done"
                   /\ callers'.procs[p].kind = "fresh"
                   /\ ~callers'.procs[p].built
                   /\ cacheFile' = cacheFile
                   /\ ~callers.overlapped =>
                         /\ callers.rebuilt # <<>>
                         /\ callers'.procs[p].err = "nil"
                         /\ callers'.procs[p].map = Decode(LastDoc)
                         /\ cacheFile = [exists |-> TRUE, mtime |-> LastAt,
                                         content |-> Whole(LastDoc)]]_vars

\* a call has returned the map of an earlier rebuild although the theme
\* directories would by now give another map
C12_Witness ==
    /\ ~callers.overlapped
    /\ callers.rebuilt # <<>>
    /\ \E p \in Procs :
          /\ callers.procs[p].pc = "done"
          /\ callers.procs[p].kind = "fresh"
          /\ callers.procs[p].n = 2
          /\ callers.procs[p].map = Decode(LastDoc)
          /\ ~BuildFrom(dataDirs, 1, <<>>).err
          /\ BuildFrom(dataDirs, 1, <<>>).map # callers.procs[p].map

\* the readable descriptors below the existing icons directories, by position
Readable(dirs) ==
    {pos \in (DOMAIN dirs) \X (1 .. 3) :
        /\ dirs[pos[1]].icons
        /\ pos[2] \in DOMAIN dirs[pos[1]].descs
        /\ dirs[pos[1]].descs[pos[2]].readable}

ThemeAt(dirs, pos) == dirs[pos[1]].descs[pos[2]].theme

Later(a, b) == a[1] > b[1] \/ (a[1] = b[1] /\ a[2] > b[2])

\* the map of the themes of dirs in which, of the themes of one name, the one
\* scanned last stands
ExpectedMerge(dirs) ==
    [name \in {ThemeAt(dirs, pos).Name : pos \in Readable(dirs)} |->
        ThemeAt(dirs, CHOOSE pos \in Readable(dirs) :
                        /\ ThemeAt(dirs, pos).Name = name
                        /\ \A o \in Readable(dirs) :
                              ThemeAt(dirs, o).Name = name => (o = pos \/ Later(pos, o)))]

HasUnreadable(dirs) ==
    \E i \in DOMAIN dirs : dirs[i].icons /\ \E j \in DOMAIN dirs[i].descs : ~dirs[i].descs[j].readable

\* C13: a call that finds the cache file missing or stale goes to the builder;
\* the map built from readable theme directories is the merge of the data
\* directories in order, a later theme of the same name replacing the earlier
\* one; the call returns that map, and when calls do not overlap the cache
\* file holds, after the write, exactly the serialization of that map.
C13_RebuildMergesAndWrites ==
    [][\A p \in Procs :
          /\ (callers.procs[p].pc = "check" /\ callers'.procs[p].pc # "check"
                /\ ~(cacheFile.exists /\ now - cacheFile.mtime < FreshWindow))
                => callers'.procs[p].pc = "build"
          /\ (callers.procs[p].pc = "build" /\ callers'.procs[p] # callers.procs[p]
                /\ ~HasUnreadable(dataDirs))
                => /\ callers'.procs[p].pc = "create"
                   /\ callers'.procs[p].map = ExpectedMerge(dataDirs)
          /\ callers.procs[p].pc = "encode" /\ callers'.procs[p] # callers.procs[p]
                => /\ callers'.procs[p].pc = "done"
                   /\ callers'.procs[p].kind = "rebuilt"
                   /\ callers'.procs[p].err = "nil"
                   /\ callers'.procs[p].map = callers.procs[p].map
                   /\ ~callers.overlapped =>
                         cacheFile' = [exists |-> TRUE, mtime |-> now,
                                       content |-> Whole(Encode(callers.procs[p].map))]]_vars

\* a rebuild over an earlier, longer content: the theme ab of the later
\* directory's last descriptor stands, the file holds the new serialization
C13_Witness ==
    /\ ~callers.overlapped
    /\ \E p \in Procs, q \in Procs :
          /\ p # q
          /\ callers.procs[q].pc = "done" /\ callers.procs[q].kind = "rebuilt"
          /\ callers.procs[p].pc = "done" /\ callers.procs[p].kind = "rebuilt"
          /\ ByteLen(Encode(callers.procs[p].map)) < ByteLen(Encode(callers.procs[q].map))
          /\ Str_ab \in DOMAIN callers.procs[q].map
          /\ callers.procs[q].map[Str_ab].BasePath = CallsUsr \o "/copy"
          /\ cacheFile.content = Whole(Encode(callers.procs[p].map))

\* C14 as stated: once two callers that both rebuilt have returned, the cache
\* file holds exactly the complete serialization of the map of one of them.
C14_LastWriterWins ==
    (\A p \in Procs : callers.procs[p].pc = "done" /\ callers.procs[p].kind = "rebuilt")
        => \E p \in Procs : cacheFile.content = Whole(Encode(callers.procs[p].map))

\* C15: a descriptor that cannot be read makes GenerateThemeMap return an
\* error and no map; the call of CacheThemeMap then returns the error and no
\* map, and the step leaves the cache file as it was.
C15_BuildFailureAborts ==
    /\ [](\A i \in DOMAIN dataDirs :
             (\E j \in DOMAIN dataDirs[i].descs : ~dataDirs[i].descs[j].readable)
                => GenerateThemeMap(dataDirs[i].descs) = [err |-> TRUE, map |-> <<>>])
    /\ [][\A p \in Procs :
             (callers.procs[p].pc = "build" /\ callers'.procs[p] # callers.procs[p]
                /\ HasUnreadable(dataDirs))
                => /\ callers'.procs[p].pc = "done"
                   /\ callers'.procs[p].kind = "error"
                   /\ callers'.procs[p].err # "nil"
                   /\ callers'.procs[p].map = <<>>
                   /\ cacheFile' = cacheFile]_vars

\* a call failed on a stale cache file, which still holds the earlier content
C15_Witness ==
    /\ ~callers.overlapped
    /\ callers.rebuilt # <<>>
    /\ cacheFile = [exists |-> TRUE, mtime |-> LastAt, content |-> Whole(LastDoc)]
    /\ LastDoc # <<>>
    /\ \E p \in Procs :
          /\ callers.procs[p].pc = "done"
          /\ callers.procs[p].kind = "error"
          /\ callers.procs[p].n = 2

\* C18: os.Create leaves the file existing, empty and with the modification
\* time of the moment, so that a call checking it then takes the fresh branch;
\* a call that reads the file while it is empty is on the fresh branch, some
\* other call is between its create and its encode, and the reading call
\* returns an error and no map.
C18_RewriteWindow ==
    [][\A p \in Procs :
          /\ callers.procs[p].pc = "create" /\ callers'.procs[p] # callers.procs[p]
                => /\ callers'.procs[p].pc = "encode"
                   /\ cacheFile' = [exists |-> TRUE, mtime |-> now, content |-> <<>>]
                   /\ Branch(cacheFile', now) = "read"
          /\ (callers.procs[p].pc = "read" /\ callers'.procs[p] # callers.procs[p]
                /\ cacheFile.content = <<>>)
                => /\ \E q \in Procs : q # p /\ callers.procs[q].pc = "encode"
                   /\ callers'.procs[p].pc = "done"
                   /\ callers'.procs[p].kind = "fresh"
                   /\ callers'.procs[p].err # "nil"
                   /\ callers'.procs[p].map = <<>>]_vars

\* a call has returned the decode error while the other call, which replaces
\* an earlier complete cache file, is still before its encode
C18_Witness ==
    /\ callers.rebuilt # <<>>
    /\ \E p \in Procs, q \in Procs :
          /\ callers.procs[q].pc = "encode"
          /\ callers.procs[p].pc = "done"
          /\ callers.procs[p].kind = "fresh"
          /\ callers.procs[p].err = "EOF"

-----------------------------------------------------------------------------
(***************************************************************************)
(* Termination of the inheritance walk (SpecWalkFair).                     *)
(***************************************************************************)

\* some theme reachable from the requested theme is its own ancestor
Cyclic == \E k \in Ancestors(theme) : k \in Ancestors(themeMap[k])

\* the next step of the walk is a recursive call
AboutToDescend ==
    /\ pc \in {"walk1", "walk2"}
    /\ stack # <<>>
    /\ LET top == stack[Len(stack)] IN
       /\ top.idx >= 1
       /\ top.idx <= Len(top.theme.Parents)
       /\ ResolveParent(top.theme.Parents[top.idx], themeMap).exists

\* C16: there is no cycle guard. When the parent relation reachable from the
\* requested theme is acyclic, the recursion stays within the number of
\* reachable themes (the bound of the model on the depth is never met) and
\* FindIcon returns. When it has a cycle and no reachable theme holds the icon,
\* the walk from the requested theme never returns: the recursion goes on
\* down to every depth the model allows.
C16_NoCycleGuard ==
    /\ ~Cyclic =>
          /\ [](Len(stack) <= 1 + Cardinality(Ancestors(theme)))
          /\ [](AboutToDescend => Len(stack) < MaxDepth)
          /\ <>(pc = "done")
    /\ (Cyclic /\ ~ChainHolds(theme)) =>
          /\ [](pc \in {"idle", "walk1"})
          /\ <>[](Len(stack) = MaxDepth /\ AboutToDescend)

\* the walk is in a cycle without the icon, at the greatest depth of the model
C16_Witness ==
    /\ Cyclic /\ ~ChainHolds(theme)
    /\ pc = "walk1"
    /\ Len(stack) = MaxDepth
    /\ AboutToDescend
    /\ stack[1].theme = stack[3].theme

-----------------------------------------------------------------------------
(***************************************************************************)
(* Properties of parseIndexTheme (SpecParse).                              *)
(***************************************************************************)

\* the names of the Directories line of the descriptor
Directories ==
    LET n == CHOOSE n \in DOMAIN parsed.lines : parsed.lines[n].key = "Directories"
    IN parsed.lines[n].list

PathNames(th) == [n \in DOMAIN th.Subdirs |-> th.Subdirs[n].PathName]

\* C17 as stated: every parse of the descriptor yields the directory rules in
\* the order of the names of the Directories line, two parses yield the same
\* theme, and LookupIcon returns the same on the themes of two builds.
C17_SubdirsInDescriptorOrder ==
    /\ \A n \in DOMAIN parsed.themes : PathNames(parsed.themes[n]) = Directories
    /\ \A n, m \in DOMAIN parsed.themes : parsed.themes[n] = parsed.themes[m]
    /\ \A n, m \in DOMAIN parsed.found : parsed.found[n] = parsed.found[m]

-----------------------------------------------------------------------------
(***************************************************************************)
(* Properties of the notification daemon (SpecDaemon).                     *)
(***************************************************************************)

\* an ID that Notify has returned: since the start of the model, or before it
\* (a daemon whose nextID is n has returned every ID from 1 below n)
WasReturned(id, since) == id \in since \/ (id # 0 /\ ULess(id, daemon.first))

\* C19 as stated: every stored notification has a non-zero ID equal to its key
\* and smaller than nextID; nextID never decreases; a Notify whose replacesID
\* names a live notification returns that ID and replaces the entry; every
\* other Notify returns an ID that was never returned before.
C19_DaemonInvariants ==
    /\ \A k \in DOMAIN daemon.Notifications :
          /\ daemon.Notifications[k].ID = k
          /\ k # 0
          /\ ULess(k, daemon.nextID)
    /\ daemon.last.nextBefore = daemon.nextID \/ ULess(daemon.last.nextBefore, daemon.nextID)
    /\ daemon.last.op = "Notify" =>
          IF daemon.last.live
          THEN /\ daemon.last.id = daemon.last.arg
               /\ daemon.Notifications = Put(daemon.last.storedBefore, daemon.last.arg,
                                             daemon.last.event.Notification)
          ELSE ~WasReturned(daemon.last.id, daemon.last.returnedBefore)

\* C20: the event of a Notify call has Deleted false and exactly one of
\* Created and Modified set, Created exactly when replacesID is 0, and it
\* carries the notification stored; so a call with a non-zero replacesID that
\* names no stored notification takes its ID from nextID, stores a new
\* notification under it and emits Modified without Created. Every event in
\* the channel that is not a deletion has exactly one of the two set.
C20_NotifyEventFlags ==
    /\ daemon.last.op = "Notify" =>
          /\ ~daemon.last.event.Deleted
          /\ daemon.last.event.Created # daemon.last.event.Modified
          /\ daemon.last.event.Created <=> daemon.last.arg = 0
          /\ daemon.last.event.Notification = daemon.Notifications[daemon.last.id]
          /\ (daemon.last.arg # 0 /\ ~daemon.last.live) =>
                /\ daemon.last.id = daemon.last.nextBefore
                /\ daemon.nextID = Inc32(daemon.last.nextBefore)
                /\ daemon.last.event.Notification.ID = daemon.last.nextBefore
                /\ daemon.last.event.Modified
                /\ ~daemon.last.event.Created
    /\ \A n \in DOMAIN daemon.channel :
          IF daemon.channel[n].Deleted
          THEN ~daemon.channel[n].Created /\ ~daemon.channel[n].Modified
          ELSE daemon.channel[n].Created # daemon.channel[n].Modified

\* a Notify with replacesID 2, which names no stored notification, has stored
\* a notification under the new ID 1, and its event, Modified, is in the channel
C20_Witness ==
    /\ daemon.last.op = "Notify"
    /\ daemon.last.arg = 2
    /\ ~daemon.last.live
    /\ daemon.last.id = 1
    /\ 2 \notin DOMAIN daemon.Notifications
    /\ daemon.channel # <<>>
    /\ daemon.channel[Len(daemon.channel)] = daemon.last.event
    /\ daemon.last.event.Modified

-----------------------------------------------------------------------------
(***************************************************************************)
(* The channel and the mutex (SpecBacklogFair).                            *)
(***************************************************************************)

\* some client begins a call of the daemon
CallBegins ==
    \/ \E c \in Clients, replacesID \in ClientIDs, body \in Bodies : Notify(c, replacesID, body)
    \/ \E c \in Clients, id \in ClientIDs : CloseNotification(c, id)
    \/ \E c \in Clients, id \in ClientIDs : CloseNotificationAsUser(c, id)

AtSend(c) == daemon.client[c].pc = "send"

\* a call waits at its send on the full channel
Blocked == \E c \in Clients : AtSend(c) /\ Len(daemon.channel) = ChannelCap

\* C21: a call is at its send with the mutex held. The send, and with it the
\* return, can go on exactly when fewer than 10 events are buffered, and then
\* the call does return. While a call is at its send, no other call begins,
\* although calls begin whenever the mutex is free; when the channel holds 10
\* events the only step left to the daemon is the receiver taking the oldest
\* event, so without a receiver nothing changes any more.
C21_SendBlocksUnderMutex ==
    /\ [](Len(daemon.channel) <= ChannelCap)
    /\ [](\A c \in Clients :
             AtSend(c) => /\ daemon.mu = c
                          /\ (ENABLED Send(c)) <=> Len(daemon.channel) < ChannelCap)
    /\ []((\E c \in Clients : AtSend(c)) => ~ENABLED CallBegins)
    /\ []((daemon.mu = 0 /\ daemon.ops < MaxOps) => ENABLED CallBegins)
    /\ [][Blocked => daemon' = [daemon EXCEPT !.channel = Tail(daemon.channel)]]_vars
    /\ \A c \in Clients :
          (AtSend(c) /\ Len(daemon.channel) < ChannelCap) ~> ~AtSend(c)

\* a Notify waits at its send on 10 buffered events while the other client
\* has calls left to make
C21_Witness ==
    /\ Blocked
    /\ daemon.last.op = "Notify"
    /\ daemon.ops < MaxOps
    /\ \E c \in Clients : daemon.client[c].pc = "idle"

====
